---- MODULE Spec2Model ----
(***************************************************************************)
(* Ingestion, deduplication and classification pipeline of the aggregator: *)
(* the VK poller (vk_parser.py), the Telegram event handler (tg_parser.py) *)
(* and the dedup ledger of the storage layer (database.py).                *)
(*                                                                         *)
(* Texts are modelled as the set of words they contain, so the Python      *)
(* substring test `word in text` is membership of the word in the text.    *)
(* Words are written in Latin transliteration of the source's literals:    *)
(*   otdam/darom/besplatno, kuplyu/ishchu/nuzhen/priobretu,                *)
(*   prodam/prodayu/realizuyu/tsena, rub/rub_sign/r_dot/stoimost, ...      *)
(* A word in capitals is the same word typed in upper case.                *)
(***************************************************************************)
EXTENDS Integers, Sequences, FiniteSets, TLC

\* ------------------------------------------------------------------ bounds
MaxBatch == 2        \* posts returned by one wall.get (the code asks for 5)
MaxPostId == 2       \* VK post ids are 1..MaxPostId
MaxMsgId == 1        \* Telegram message ids are 1..MaxMsgId
MaxInflight == 2     \* Telegram handlers suspended at an await point
MaxFaults == 1       \* storage errors the environment injects in one run
MaxRestarts == 1     \* process restarts on the same database
MaxTime == 1         \* CURRENT_TIMESTAMP runs over 0..MaxTime
TicksPerSecond == 2  \* resolution of datetime.now() in the rate limiter runs
MaxClock == 8        \* the rate limiter runs end at this tick
MaxAcquires == 7     \* calls of check_rate_limits in one rate limiter run

\* if self.request_count >= 3
RateLimit == 3

\* ------------------------------------------------------------------ text
\* str.lower() on one word
LowerWord(w) ==
  CASE w = "PRODAM" -> "prodam"
    [] w = "OTDAM" -> "otdam"
    [] w = "KUPLYU" -> "kuplyu"
    [] w = "DIVAN" -> "divan"
    [] w = "Divan" -> "divan"
    [] w = "REMONT" -> "remont"
    [] w = "Remont" -> "remont"
    [] w = "KAZINO" -> "kazino"
    [] w = "RUB" -> "rub"
    [] w = "ZAVTRA" -> "zavtra"
    [] OTHER -> w

\* str.lower() on a text
lower(text) == {LowerWord(w) : w \in text}

\* hashlib.md5(text.encode()).hexdigest(): a digest of the text as typed
md5(text) == <<"md5", text>>

\* the literal word lists of determine_target_topic
GiveawayWords == {"otdam", "darom", "besplatno"}
BuyWords == {"kuplyu", "ishchu", "nuzhen", "priobretu"}
SellWords == {"prodam", "prodayu", "realizuyu", "tsena"}

\* the literal lists of contains_date and contains_price
date_indicators ==
  {"segodnya", "zavtra", "vchera",
   "yanvarya", "fevralya", "marta", "aprelya", "maya", "iyunya",
   "iyulya", "avgusta", "sentyabrya", "oktyabrya", "noyabrya", "dekabrya"}
price_indicators == {"rub", "rub_sign", "r_dot", "tsena", "stoimost"}

\* a date test that any text passes
contains_date_any(text) == text # {}

contains_date(text) == \E indicator \in date_indicators : indicator \in lower(text)
contains_price(text) == \E indicator \in price_indicators : indicator \in lower(text)

contains_ad_keywords(text, keywords) ==
  \E keyword \in keywords : LowerWord(keyword) \in lower(text)

\* ------------------------------------------------------------------ topics
\* dict.get() answers None for a missing key; None is falsy
None == [id |-> "None", topic_id |-> 0]

\* a lookup that falls back to some topic of the catalog
Get_fallback(topics, id) ==
  IF id \in DOMAIN topics THEN topics[id]
  ELSE topics[CHOOSE other \in DOMAIN topics : TRUE]

Get(topics, id) == IF id \in DOMAIN topics THEN topics[id] ELSE None

\* the catalog MaslyaninoBot.initialize creates, as get_topics returns it
DefaultTopics ==
  [id \in {"podslushano", "kuplyu", "prodam", "otdam", "novosti", "otdyh"} |->
     [id |-> id,
      topic_id |-> CASE id = "podslushano" -> 101
                     [] id = "kuplyu" -> 102
                     [] id = "prodam" -> 103
                     [] id = "otdam" -> 104
                     [] id = "novosti" -> 105
                     [] OTHER -> 106]]

\* ------------------------------------------------------------------ classifier
\* a classifier whose keyword test is case-sensitive on the text
VK_determine_target_topic_case_sensitive(post, group, topics) ==
  LET text == lower(post.text) IN
  IF group.all_posts THEN Get(topics, group.target_topic)
  ELSE IF group.classifier_type = "buy_sell" THEN
    IF \E word \in GiveawayWords : word \in text THEN Get(topics, "otdam")
    ELSE IF \E word \in BuyWords : word \in text THEN Get(topics, "kuplyu")
    ELSE IF \E word \in SellWords : word \in text THEN Get(topics, "prodam")
    ELSE None
  ELSE IF group.classifier_type = "keywords" /\ group.keywords # {} THEN
    IF \E keyword \in group.keywords : LowerWord(keyword) \in post.text
    THEN Get(topics, group.target_topic)
    ELSE None
  ELSE None

\* a classifier that tests the selling family before the other two
VK_determine_target_topic_sell_first(post, group, topics) ==
  LET text == lower(post.text) IN
  IF group.all_posts THEN Get(topics, group.target_topic)
  ELSE IF group.classifier_type = "buy_sell" THEN
    IF \E word \in SellWords : word \in text THEN Get(topics, "prodam")
    ELSE IF \E word \in GiveawayWords : word \in text THEN Get(topics, "otdam")
    ELSE IF \E word \in BuyWords : word \in text THEN Get(topics, "kuplyu")
    ELSE None
  ELSE IF group.classifier_type = "keywords" /\ group.keywords # {} THEN
    IF \E keyword \in group.keywords : LowerWord(keyword) \in text
    THEN Get(topics, group.target_topic)
    ELSE None
  ELSE None

\* a classifier that goes on to the next family when the topic of the
\* family it matched first is not in the catalog
VK_determine_target_topic_next_family(post, group, topics) ==
  LET text == lower(post.text) IN
  IF group.all_posts THEN Get(topics, group.target_topic)
  ELSE IF group.classifier_type = "buy_sell" THEN
    IF (\E word \in GiveawayWords : word \in text) /\ "otdam" \in DOMAIN topics
      THEN Get(topics, "otdam")
    ELSE IF (\E word \in BuyWords : word \in text) /\ "kuplyu" \in DOMAIN topics
      THEN Get(topics, "kuplyu")
    ELSE IF \E word \in SellWords : word \in text THEN Get(topics, "prodam")
    ELSE None
  ELSE IF group.classifier_type = "keywords" /\ group.keywords # {} THEN
    IF \E keyword \in group.keywords : LowerWord(keyword) \in text
    THEN Get(topics, group.target_topic)
    ELSE None
  ELSE None

VK_determine_target_topic(post, group, topics) ==
  LET text == lower(post.text) IN
  IF group.all_posts THEN Get(topics, group.target_topic)
  ELSE IF group.classifier_type = "buy_sell" THEN
    IF \E word \in GiveawayWords : word \in text THEN Get(topics, "otdam")
    ELSE IF \E word \in BuyWords : word \in text THEN Get(topics, "kuplyu")
    ELSE IF \E word \in SellWords : word \in text THEN Get(topics, "prodam")
    ELSE None
  ELSE IF group.classifier_type = "keywords" /\ group.keywords # {} THEN
    IF \E keyword \in group.keywords : LowerWord(keyword) \in text
    THEN Get(topics, group.target_topic)
    ELSE None
  ELSE None

\* a classifier that looks at all_posts only after the strategies
TG_determine_target_topic_all_posts_last(text, source, topics) ==
  LET text_lower == lower(text) IN
  IF source.classifier_type = "buy_sell" THEN
    IF \E word \in GiveawayWords : word \in text_lower THEN Get(topics, "otdam")
    ELSE IF \E word \in BuyWords : word \in text_lower THEN Get(topics, "kuplyu")
    ELSE IF \E word \in SellWords : word \in text_lower THEN Get(topics, "prodam")
    ELSE None
  ELSE IF source.classifier_type = "keywords" /\ source.keywords # {} THEN
    IF \E keyword \in source.keywords : LowerWord(keyword) \in text_lower
    THEN Get(topics, source.target_topic)
    ELSE None
  ELSE IF source.all_posts THEN Get(topics, source.target_topic)
  ELSE None

\* a Telegram classifier that tries the sell family before the other two
TG_determine_target_topic_sell_first(text, source, topics) ==
  LET text_lower == lower(text) IN
  IF source.all_posts THEN Get(topics, source.target_topic)
  ELSE IF source.classifier_type = "buy_sell" THEN
    IF \E word \in SellWords : word \in text_lower THEN Get(topics, "prodam")
    ELSE IF \E word \in GiveawayWords : word \in text_lower THEN Get(topics, "otdam")
    ELSE IF \E word \in BuyWords : word \in text_lower THEN Get(topics, "kuplyu")
    ELSE None
  ELSE IF source.classifier_type = "keywords" /\ source.keywords # {} THEN
    IF \E keyword \in source.keywords : LowerWord(keyword) \in text_lower
    THEN Get(topics, source.target_topic)
    ELSE None
  ELSE None

TG_determine_target_topic(text, source, topics) ==
  LET text_lower == lower(text) IN
  IF source.all_posts THEN Get(topics, source.target_topic)
  ELSE IF source.classifier_type = "buy_sell" THEN
    IF \E word \in GiveawayWords : word \in text_lower THEN Get(topics, "otdam")
    ELSE IF \E word \in BuyWords : word \in text_lower THEN Get(topics, "kuplyu")
    ELSE IF \E word \in SellWords : word \in text_lower THEN Get(topics, "prodam")
    ELSE None
  ELSE IF source.classifier_type = "keywords" /\ source.keywords # {} THEN
    IF \E keyword \in source.keywords : LowerWord(keyword) \in text_lower
    THEN Get(topics, source.target_topic)
    ELSE None
  ELSE None

\* ------------------------------------------------------------------ ledger
\* the UNIQUE(source_type, source_id, source_group) key of a processed_posts row
KeyOf(r) == <<r.source_type, r.source_id, r.source_group>>

Keys(led) == {KeyOf(r) : r \in led}

\* variants of the ledger operations that the properties must tell apart
\* from the ones above: a lookup that forgets Telegram rows,
is_processed_vk_only(led, source_type, source_id, source_group) ==
  \E r \in led : /\ r.source_type = "vk"
                 /\ r.source_type = source_type
                 /\ r.source_id = source_id
                 /\ r.source_group = source_group

\* a lookup without the source_group column,
is_processed_any_group(led, source_type, source_id, source_group) ==
  \E r \in led : /\ r.source_type = source_type
                 /\ r.source_id = source_id

\* an INSERT that is never committed,
mark_processed_lost(led, source_type, source_id, source_group, target_topic_id, content_hash, ts, ok) ==
  [ledger |-> led, ret |-> ok]

\* a failure reported after the row was committed,
mark_processed_despite(led, source_type, source_id, source_group, target_topic_id, content_hash, ts, ok) ==
  [ledger |-> IF \E r \in led : KeyOf(r) = <<source_type, source_id, source_group>>
                THEN led
                ELSE led \cup {[source_type |-> source_type,
                                source_id |-> source_id,
                                source_group |-> source_group,
                                content_hash |-> content_hash,
                                target_topic_id |-> target_topic_id,
                                processed_at |-> ts]},
   ret |-> ok]

\* and INSERT OR REPLACE in place of INSERT OR IGNORE
mark_processed_replace(led, source_type, source_id, source_group, target_topic_id, content_hash, ts, ok) ==
  IF ~ok THEN [ledger |-> led, ret |-> FALSE]
  ELSE [ledger |-> {r \in led : KeyOf(r) # <<source_type, source_id, source_group>>}
                     \cup {[source_type |-> source_type,
                            source_id |-> source_id,
                            source_group |-> source_group,
                            content_hash |-> content_hash,
                            target_topic_id |-> target_topic_id,
                            processed_at |-> ts]},
        ret |-> TRUE]

\* SELECT 1 FROM processed_posts WHERE source_type = ? AND source_id = ? AND source_group = ?
is_processed(led, source_type, source_id, source_group) ==
  \E r \in led : /\ r.source_type = source_type
                 /\ r.source_id = source_id
                 /\ r.source_group = source_group

\* INSERT OR IGNORE ...; commit; return True.  Any exception (ok = FALSE) is
\* caught, nothing is committed and False is returned.  processed_at is the
\* column default CURRENT_TIMESTAMP.
mark_processed(led, source_type, source_id, source_group, target_topic_id, content_hash, ts, ok) ==
  IF ~ok THEN [ledger |-> led, ret |-> FALSE]
  ELSE IF \E r \in led : KeyOf(r) = <<source_type, source_id, source_group>>
       THEN [ledger |-> led, ret |-> TRUE]
       ELSE [ledger |-> led \cup {[source_type |-> source_type,
                                   source_id |-> source_id,
                                   source_group |-> source_group,
                                   content_hash |-> content_hash,
                                   target_topic_id |-> target_topic_id,
                                   processed_at |-> ts]},
             ret |-> TRUE]

\* ------------------------------------------------------------------ strings
\* identifiers the code inspects character by character are sequences of
\* one-character strings
Digits == <<"0", "1", "2", "3", "4", "5", "6", "7", "8", "9">>

DigitChar(d) == Digits[d + 1]

\* str(n) for an integer n
RECURSIVE StrNat(_)
StrNat(n) == IF n < 10 THEN <<DigitChar(n)>> ELSE StrNat(n \div 10) \o <<DigitChar(n % 10)>>

Str(n) == IF n < 0 THEN <<"-">> \o StrNat(-n) ELSE StrNat(n)

\* str.isdigit()
isdigit(s) == Len(s) > 0 /\ \A i \in 1..Len(s) : \E d \in 1..10 : s[i] = Digits[d]

DigitVal(c) == CHOOSE d \in 0..9 : Digits[d + 1] = c

\* int(s) for a string of digits
RECURSIVE IntOf(_)
IntOf(s) == IF Len(s) = 0 THEN 0
            ELSE 10 * IntOf(SubSeq(s, 1, Len(s) - 1)) + DigitVal(s[Len(s)])

\* str.lstrip('-')
RECURSIVE lstrip_minus(_)
lstrip_minus(s) == IF Len(s) > 0 /\ Head(s) = "-" THEN lstrip_minus(Tail(s)) ELSE s

\* ------------------------------------------------------------------ configuration
\* rows of vk_groups, as get_vk_groups returns them (ORDER BY name)
GroupA ==
  [name |-> "a", group_id |-> <<"1", "2">>, target_topic |-> "podslushano",
   all_posts |-> FALSE, classifier_type |-> "buy_sell", keywords |-> {},
   exclude_keywords |-> {}, require_date_or_price |-> FALSE, enabled |-> TRUE]

GroupB ==
  [name |-> "b", group_id |-> <<"c", "l", "u", "b">>, target_topic |-> "novosti",
   all_posts |-> FALSE, classifier_type |-> "keywords", keywords |-> {"PRODAM"},
   exclude_keywords |-> {"remont"}, require_date_or_price |-> FALSE, enabled |-> TRUE]

\* a row of telegram_sources, as get_telegram_sources returns it; topic_id 0 is NULL
SourceA ==
  [name |-> "a", chat_id |-> 12, topic_id |-> 0, target_topic |-> "podslushano",
   all_posts |-> FALSE, classifier_type |-> "buy_sell", keywords |-> {},
   show_author |-> TRUE, enabled |-> TRUE]

\* texts of the upstream feeds in the pipeline specification
TextSell == {"prodam", "tsena"}
TextThanks == {"spasibo"}
PipeTexts == {TextSell, TextThanks}

\* chats the Telegram account sees: a configured one and a foreign one
PipeChats == {12, 99}

\* ------------------------------------------------------------------ state
VARIABLES
  ledger,          \* processed_posts table
  vk_groups_tbl,   \* vk_groups table, in ORDER BY name
  tg_sources_tbl,  \* telegram_sources table, in ORDER BY name
  topics_tbl,      \* topics table as get_topics returns it
  ad_keywords_tbl, \* ad_keywords table
  now,             \* CURRENT_TIMESTAMP
  vk_is_running,   \* VKParser.is_running
  vk_pc,           \* where VKParser.start is: init, loop, group, posts, sleep, done
  vk_snapshot,     \* groups, topics, ad_keywords read by check_all_groups
  vk_i,            \* index of the group the for loop of check_all_groups is at
  vk_posts,        \* posts of check_group's for loop not yet processed
  vk_session,      \* VKParser.session: none, open, closing (close scheduled), closed
  tg_is_running,   \* TelegramParser.is_running
  tg_pc,           \* where TelegramParser.start is: init, running, failed, done
  tg_registered,   \* the NewMessage handler is registered on the client
  tg_sources,      \* TelegramParser.sources
  tg_inflight,     \* handlers suspended after the duplicate check (a bag)
  delivered,       \* delivery requests emitted so far, per key (a bag)
  last_seen,       \* key of the last item this process dropped as already processed
  db_last,         \* the last direct call of the ledger interface and its answer
  cl,              \* the last item classified on its own and the decision
  vk_limiter,      \* VKParser.request_count and VKParser.last_request_reset
  rl_run,          \* the clock and the calls of the rate limiter run so far
  faults,          \* storage errors the environment may still inject
  fault_kind,      \* the storage call that failed last: config, seen, topics, mark
  restarts,        \* restarts the environment may still make
  db_conns,        \* per caller, the connection its mark_processed call has open
  admins,          \* admins table: rows of user_id and is_main
  fsm_state,       \* aiogram FSM state of the user's chat with the autoposting bot
  fsm_data,        \* aiogram FSM data of that chat: the keys set so far
  post_storage,    \* PostStorage.posts of the autoposting bot, the n-th post created at n
  sched_tasks,     \* the schedule_post_task tasks alive: post id and created or sleeping
  bot_clock,       \* datetime.now(NSK_TIMEZONE) of the autoposting bot
  bot_pc           \* the autoposting bot: down, startup (module loaded), up, degraded

bot_vars == <<fsm_state, fsm_data, post_storage, sched_tasks, bot_clock, bot_pc>>

vars == <<ledger, vk_groups_tbl, tg_sources_tbl, topics_tbl, ad_keywords_tbl, now,
          vk_is_running, vk_pc, vk_snapshot, vk_i, vk_posts, vk_session,
          tg_is_running, tg_pc, tg_registered, tg_sources, tg_inflight,
          delivered, last_seen, db_last, cl, vk_limiter, rl_run,
          faults, fault_kind, restarts, db_conns, admins, bot_vars>>

\* callers that may be inside mark_processed at the same time: process_post
\* of the VK lane and two handlers of the Telegram lane
Writers == {"vk", "tg1", "tg2"}

NoConns == [w \in Writers |-> [pc |-> "idle"]]

limiter_vars == <<vk_limiter, rl_run>>
other_vars == <<db_last, cl, limiter_vars>>
db_vars == <<vk_groups_tbl, tg_sources_tbl, topics_tbl, ad_keywords_tbl>>
vk_vars == <<vk_is_running, vk_pc, vk_snapshot, vk_i, vk_posts, vk_session>>
tg_vars == <<tg_is_running, tg_pc, tg_registered, tg_sources, tg_inflight>>

\* FSM data after state.finish(): no key set; has holds the keys set so far,
\* delete_days 0 stands for None
NoData == [has |-> {}, content |-> "", publish_time |-> 0, price |-> "None",
           delete_days |-> 0]

NoCall == [op |-> "none"]

NoDecision == [lane |-> "none"]

NoSnapshot == [groups |-> <<>>, topics |-> <<>>, ad_keywords |-> {}]

\* SELECT ... WHERE enabled = 1 of a table kept in ORDER BY name
RECURSIVE EnabledOnly(_)
EnabledOnly(rows) ==
  IF rows = <<>> THEN <<>>
  ELSE IF Head(rows).enabled THEN <<Head(rows)>> \o EnabledOnly(Tail(rows))
  ELSE EnabledOnly(Tail(rows))

\* a storage call may fail only while the environment has errors left
Oks == IF faults > 0 THEN {TRUE, FALSE} ELSE {TRUE}

\* bags as functions from elements to positive counts
EmptyBag == <<>>

BagAdd(bag, k) ==
  IF k \in DOMAIN bag THEN [bag EXCEPT ![k] = @ + 1]
  ELSE [x \in DOMAIN bag \cup {k} |-> IF x = k THEN 1 ELSE bag[x]]

BagRemove(bag, k) ==
  IF bag[k] > 1 THEN [bag EXCEPT ![k] = @ - 1]
  ELSE [x \in DOMAIN bag \ {k} |-> bag[x]]

Count(bag, k) == IF k \in DOMAIN bag THEN bag[k] ELSE 0

RECURSIVE BagSize(_)
BagSize(bag) ==
  IF DOMAIN bag = {} THEN 0
  ELSE LET k == CHOOSE x \in DOMAIN bag : TRUE
       IN bag[k] + BagSize([x \in DOMAIN bag \ {k} |-> bag[x]])

\* ------------------------------------------------------------------ VK lane
\* a process_post that takes a failed duplicate check for "not seen"
process_post_fail_open(post, group, topics, ad_keywords, led, ts, seen_ok, mark_ok) ==
  LET target_topic == VK_determine_target_topic(post, group, topics)
      marked == mark_processed(led, "vk", Str(post.id), group.group_id,
                               target_topic.topic_id, md5(post.text), ts, mark_ok)
  IN IF target_topic = None
       THEN [outcome |-> "no_topic", topic |-> None, ledger |-> led,
             deliver |-> FALSE, raised |-> FALSE]
       ELSE [outcome |-> IF marked.ret THEN "recorded" ELSE "record_failed",
             topic |-> target_topic, ledger |-> marked.ledger,
             deliver |-> TRUE, raised |-> FALSE]

\* a process_post in which a keyword match or all_posts wins over the
\* exclude-keywords
process_post_include_first(post, group, topics, ad_keywords, led, ts, seen_ok, mark_ok) ==
  LET text == post.text
      target_topic == VK_determine_target_topic(post, group, topics)
      marked == mark_processed(led, "vk", Str(post.id), group.group_id,
                               target_topic.topic_id, md5(text), ts, mark_ok)
      drop(why) == [outcome |-> why, topic |-> None, ledger |-> led,
                    deliver |-> FALSE, raised |-> FALSE]
  IN
  IF ~seen_ok
    THEN [outcome |-> "seen_error", topic |-> None, ledger |-> led,
          deliver |-> FALSE, raised |-> TRUE]
  ELSE IF is_processed(led, "vk", Str(post.id), group.group_id) THEN drop("seen")
  ELSE IF text = {} /\ ~group.all_posts THEN drop("empty")
  ELSE IF contains_ad_keywords(text, ad_keywords) THEN drop("ad")
  ELSE IF group.require_date_or_price /\ ~(contains_date(text) \/ contains_price(text))
    THEN drop("gate")
  ELSE IF target_topic # None
    THEN [outcome |-> IF marked.ret THEN "recorded" ELSE "record_failed",
          topic |-> target_topic, ledger |-> marked.ledger,
          deliver |-> TRUE, raised |-> FALSE]
  ELSE IF group.exclude_keywords # {} /\ contains_ad_keywords(text, group.exclude_keywords)
    THEN drop("exclude")
  ELSE drop("no_topic")

\* a process_post that also records the posts it rejects, so as not to look
\* at them again
process_post_record_rejects(post, group, topics, ad_keywords, led, ts, seen_ok, mark_ok) ==
  LET text == post.text
      target_topic == VK_determine_target_topic(post, group, topics)
      accepted == /\ ~(text = {} /\ ~group.all_posts)
                  /\ ~contains_ad_keywords(text, ad_keywords)
                  /\ ~(group.exclude_keywords # {}
                         /\ contains_ad_keywords(text, group.exclude_keywords))
                  /\ (group.require_date_or_price =>
                        (contains_date(text) \/ contains_price(text)))
                  /\ target_topic # None
      marked == mark_processed(led, "vk", Str(post.id), group.group_id,
                               target_topic.topic_id, md5(text), ts, mark_ok)
  IN
  IF ~seen_ok
    THEN [outcome |-> "seen_error", topic |-> None, ledger |-> led,
          deliver |-> FALSE, raised |-> TRUE]
  ELSE IF is_processed(led, "vk", Str(post.id), group.group_id)
    THEN [outcome |-> "seen", topic |-> None, ledger |-> led,
          deliver |-> FALSE, raised |-> FALSE]
  ELSE [outcome |-> IF ~marked.ret THEN "record_failed"
                    ELSE IF accepted THEN "recorded" ELSE "no_topic",
        topic |-> target_topic, ledger |-> marked.ledger,
        deliver |-> accepted, raised |-> FALSE]

\* a process_post that writes a row for a post the classifier finds no topic
\* for, so that the next tick takes it for seen
process_post_remember_unclassified(post, group, topics, ad_keywords, led, ts, seen_ok, mark_ok) ==
  LET post_id == Str(post.id)
      source_group == group.group_id
      text == post.text
      target_topic == VK_determine_target_topic(post, group, topics)
      marked == mark_processed(led, "vk", post_id, source_group,
                               target_topic.topic_id, md5(text), ts, mark_ok)
      drop(why) == [outcome |-> why, topic |-> None, ledger |-> led,
                    deliver |-> FALSE, raised |-> FALSE]
  IN
  IF ~seen_ok
    THEN [outcome |-> "seen_error", topic |-> None, ledger |-> led,
          deliver |-> FALSE, raised |-> TRUE]
  ELSE IF is_processed(led, "vk", post_id, source_group) THEN drop("seen")
  ELSE IF text = {} /\ ~group.all_posts THEN drop("empty")
  ELSE IF contains_ad_keywords(text, ad_keywords) THEN drop("ad")
  ELSE IF group.exclude_keywords # {} /\ contains_ad_keywords(text, group.exclude_keywords)
    THEN drop("exclude")
  ELSE IF group.require_date_or_price /\ ~(contains_date(text) \/ contains_price(text))
    THEN drop("gate")
  ELSE IF target_topic = None
    THEN [outcome |-> IF marked.ret THEN "no_topic" ELSE "record_failed",
          topic |-> None, ledger |-> marked.ledger, deliver |-> FALSE, raised |-> FALSE]
  ELSE [outcome |-> IF marked.ret THEN "recorded" ELSE "record_failed",
        topic |-> target_topic, ledger |-> marked.ledger,
        deliver |-> TRUE, raised |-> FALSE]

\* VKParser.process_post for one post: what it decides and what it leaves in
\* the ledger.  seen_ok = FALSE: is_processed raises and the exception leaves
\* process_post.  mark_ok = FALSE: the INSERT of mark_processed fails.
process_post(post, group, topics, ad_keywords, led, ts, seen_ok, mark_ok) ==
  LET post_id == Str(post.id)
      source_group == group.group_id
      text == post.text
      target_topic == VK_determine_target_topic(post, group, topics)
      marked == mark_processed(led, "vk", post_id, source_group,
                               target_topic.topic_id, md5(text), ts, mark_ok)
      drop(why) == [outcome |-> why, topic |-> None, ledger |-> led,
                    deliver |-> FALSE, raised |-> FALSE]
  IN
  IF ~seen_ok
    THEN [outcome |-> "seen_error", topic |-> None, ledger |-> led,
          deliver |-> FALSE, raised |-> TRUE]
  ELSE IF is_processed(led, "vk", post_id, source_group) THEN drop("seen")
  ELSE IF text = {} /\ ~group.all_posts THEN drop("empty")
  ELSE IF contains_ad_keywords(text, ad_keywords) THEN drop("ad")
  ELSE IF group.exclude_keywords # {} /\ contains_ad_keywords(text, group.exclude_keywords)
    THEN drop("exclude")
  ELSE IF group.require_date_or_price /\ ~(contains_date(text) \/ contains_price(text))
    THEN drop("gate")
  ELSE IF target_topic = None THEN drop("no_topic")
  ELSE [outcome |-> IF marked.ret THEN "recorded" ELSE "record_failed",
        topic |-> target_topic, ledger |-> marked.ledger,
        deliver |-> TRUE, raised |-> FALSE]

\* the batches wall.get may answer: at most MaxBatch posts, newest (highest
\* id) first
Posts(texts) == [id : 1..MaxPostId, text : texts]

Batches(texts) ==
  {b \in UNION {[1..n -> Posts(texts)] : n \in 0..MaxBatch} :
     \A i \in 1..Len(b) : \A j \in 1..Len(b) : i < j => b[i].id > b[j].id}

\* the for loop of check_all_groups moves to the next group, or the tick ends
AfterGroup ==
  /\ vk_posts' = <<>>
  /\ IF vk_i < Len(vk_snapshot.groups)
       THEN vk_i' = vk_i + 1 /\ vk_pc' = "group"
       ELSE vk_i' = 0 /\ vk_pc' = "sleep"

\* VKParser.start up to the while loop
VKStart ==
  /\ vk_pc = "init"
  /\ vk_is_running' = TRUE
  /\ vk_session' = "open"
  /\ vk_pc' = "loop"
  /\ UNCHANGED <<ledger, db_vars, now, vk_snapshot, vk_i, vk_posts, tg_vars,
                 delivered, last_seen, other_vars, faults, fault_kind, restarts, db_conns, admins, bot_vars>>

\* a start without the try around check_all_groups: a failed configuration
\* read ends the task
VKTick_unguarded ==
  /\ vk_pc = "loop"
  /\ IF ~vk_is_running
       THEN /\ vk_pc' = "done"
            /\ UNCHANGED <<vk_snapshot, vk_i, faults, fault_kind>>
       ELSE \E ok \in Oks :
              IF ~ok
                THEN /\ vk_pc' = "done"
                     /\ faults' = faults - 1
                     /\ fault_kind' = "config"
                     /\ UNCHANGED <<vk_snapshot, vk_i>>
                ELSE /\ vk_snapshot' = [groups |-> EnabledOnly(vk_groups_tbl),
                                        topics |-> topics_tbl,
                                        ad_keywords |-> ad_keywords_tbl]
                     /\ IF EnabledOnly(vk_groups_tbl) = <<>>
                          THEN vk_pc' = "sleep" /\ vk_i' = 0
                          ELSE vk_pc' = "group" /\ vk_i' = 1
                     /\ UNCHANGED <<faults, fault_kind>>
  /\ UNCHANGED <<ledger, db_vars, now, vk_is_running, vk_posts, vk_session, tg_vars,
                 delivered, last_seen, other_vars, restarts, db_conns, admins, bot_vars>>

\* a loop that does not test is_running: while True
VKTick_forever ==
  /\ vk_pc = "loop"
  /\ vk_snapshot' = [groups |-> EnabledOnly(vk_groups_tbl), topics |-> topics_tbl,
                     ad_keywords |-> ad_keywords_tbl]
  /\ IF EnabledOnly(vk_groups_tbl) = <<>>
       THEN vk_pc' = "sleep" /\ vk_i' = 0
       ELSE vk_pc' = "group" /\ vk_i' = 1
  /\ UNCHANGED <<ledger, db_vars, now, vk_is_running, vk_posts, vk_session, tg_vars,
                 delivered, last_seen, other_vars, faults, fault_kind, restarts, db_conns, admins, bot_vars>>

\* a tick started by a timer, whether or not the previous one has ended
VKTick_timer ==
  /\ vk_pc \in {"loop", "group", "posts"}
  /\ vk_is_running
  /\ vk_snapshot' = [groups |-> EnabledOnly(vk_groups_tbl), topics |-> topics_tbl,
                     ad_keywords |-> ad_keywords_tbl]
  /\ IF EnabledOnly(vk_groups_tbl) = <<>>
       THEN vk_pc' = "sleep" /\ vk_i' = 0
       ELSE vk_pc' = "group" /\ vk_i' = 1
  /\ UNCHANGED <<ledger, db_vars, now, vk_is_running, vk_posts, vk_session, tg_vars,
                 delivered, last_seen, other_vars, faults, fault_kind, restarts, db_conns, admins, bot_vars>>

\* the while test of start and check_all_groups up to its for loop
VKTick ==
  /\ vk_pc = "loop"
  /\ IF ~vk_is_running
       THEN /\ vk_pc' = "done"
            /\ UNCHANGED <<vk_snapshot, vk_i, faults, fault_kind>>
       ELSE \E ok \in Oks :
              IF ~ok
                THEN \* a configuration read raises: caught in start, then sleep
                     /\ vk_pc' = "sleep"
                     /\ faults' = faults - 1
                     /\ fault_kind' = "config"
                     /\ UNCHANGED <<vk_snapshot, vk_i>>
                ELSE /\ vk_snapshot' = [groups |-> EnabledOnly(vk_groups_tbl),
                                        topics |-> topics_tbl,
                                        ad_keywords |-> ad_keywords_tbl]
                     /\ IF EnabledOnly(vk_groups_tbl) = <<>>
                          THEN vk_pc' = "sleep" /\ vk_i' = 0
                          ELSE vk_pc' = "group" /\ vk_i' = 1
                     /\ UNCHANGED <<faults, fault_kind>>
  /\ UNCHANGED <<ledger, db_vars, now, vk_is_running, vk_posts, vk_session, tg_vars,
                 delivered, last_seen, other_vars, restarts, db_conns, admins, bot_vars>>

\* what groups.getById may answer: an API error, an empty list of groups, an
\* exception of the request, or the group with its id
LookupAnswers ==
  {[kind |-> "error"], [kind |-> "empty"], [kind |-> "exception"], [kind |-> "group", id |-> 5]}

\* get_group_owner_id: the owner id, or 0 for None (check_group tests it
\* with "not owner_id").  A request on a closed session raises.
get_group_owner_id(screen_name, answer, closed) ==
  IF closed \/ answer.kind # "group" THEN 0 ELSE -answer.id

\* a check_group that takes only unsigned digits for a numeric identifier
check_group_unsigned(group_id, answer, batch, closed) ==
  LET numeric == isdigit(group_id)
      owner_id == IF numeric THEN -IntOf(lstrip_minus(group_id))
                  ELSE get_group_owner_id(group_id, answer, closed)
      lookup == IF numeric THEN <<>> ELSE <<"groups.getById">>
  IN IF ~numeric /\ owner_id = 0
       THEN [requests |-> lookup, owner_id |-> owner_id, fetched |-> FALSE, posts |-> <<>>]
       ELSE [requests |-> lookup \o <<"wall.get">>, owner_id |-> owner_id, fetched |-> TRUE,
             posts |-> IF closed THEN <<>> ELSE batch]

\* check_group up to its for loop: the requests it sends, the owner id and
\* the posts it goes on with.  batch is what wall.get answers; a request on a
\* closed session raises, which get_group_owner_id and get_group_posts
\* catch: no owner id, no posts.
check_group(group_id, answer, batch, closed) ==
  LET numeric == \/ isdigit(group_id)
                 \/ (Len(group_id) > 0 /\ Head(group_id) = "-" /\ isdigit(Tail(group_id)))
      owner_id == IF numeric THEN -IntOf(lstrip_minus(group_id))
                  ELSE get_group_owner_id(group_id, answer, closed)
      lookup == IF numeric THEN <<>> ELSE <<"groups.getById">>
  IN IF ~numeric /\ owner_id = 0
       THEN [requests |-> lookup, owner_id |-> owner_id, fetched |-> FALSE, posts |-> <<>>]
       ELSE [requests |-> lookup \o <<"wall.get">>, owner_id |-> owner_id, fetched |-> TRUE,
             posts |-> IF closed THEN <<>> ELSE batch]

\* check_group up to its for loop, in the tick; of the answers of the lookup
\* the tick tells only a group from no group
VKCheckGroup(texts) ==
  /\ vk_pc = "group"
  /\ LET group == vk_snapshot.groups[vk_i]
     IN \E answer \in {a \in LookupAnswers : a.kind \in {"error", "group"}} :
          \E fetched \in Batches(texts) :
            LET posts == check_group(group.group_id, answer, fetched,
                                     vk_session = "closed").posts IN
            IF posts = <<>>
              THEN AfterGroup
              ELSE vk_posts' = posts /\ vk_pc' = "posts" /\ vk_i' = vk_i
  /\ UNCHANGED <<ledger, db_vars, now, vk_is_running, vk_snapshot, vk_session, tg_vars,
                 delivered, last_seen, other_vars, faults, fault_kind, restarts, db_conns, admins, bot_vars>>

\* an iteration that reads the topics and the ad-keywords anew for every post
VKProcessPost_live ==
  /\ vk_pc = "posts"
  /\ \E seen_ok \in Oks, mark_ok \in Oks :
       LET post == Head(vk_posts)
           group == vk_snapshot.groups[vk_i]
           r == process_post(post, group, topics_tbl, ad_keywords_tbl,
                             ledger, now, seen_ok, mark_ok)
           key == <<"vk", Str(post.id), group.group_id>>
           rest == IF r.raised THEN <<>> ELSE Tail(vk_posts)
       IN /\ (seen_ok \/ mark_ok)
          /\ (~mark_ok => r.outcome = "record_failed")
          /\ ledger' = r.ledger
          /\ delivered' = IF r.deliver THEN BagAdd(delivered, key) ELSE delivered
          /\ last_seen' = IF r.outcome = "seen" THEN key ELSE last_seen
          /\ faults' = IF seen_ok /\ mark_ok THEN faults ELSE faults - 1
          /\ fault_kind' = IF ~seen_ok THEN "seen" ELSE IF ~mark_ok THEN "mark" ELSE fault_kind
          /\ IF rest = <<>>
               THEN AfterGroup
               ELSE vk_posts' = rest /\ UNCHANGED <<vk_pc, vk_i>>
  /\ UNCHANGED <<db_vars, now, vk_is_running, vk_snapshot, vk_session, tg_vars, other_vars,
                 restarts, db_conns, admins, bot_vars>>

\* one iteration of check_group's for loop; an exception leaves the loop and
\* is caught by the try of check_all_groups around the group
VKProcessPost ==
  /\ vk_pc = "posts"
  /\ \E seen_ok \in Oks, mark_ok \in Oks :
       LET post == Head(vk_posts)
           group == vk_snapshot.groups[vk_i]
           r == process_post(post, group, vk_snapshot.topics, vk_snapshot.ad_keywords,
                             ledger, now, seen_ok, mark_ok)
           key == <<"vk", Str(post.id), group.group_id>>
           rest == IF r.raised THEN <<>> ELSE Tail(vk_posts)
       IN /\ (seen_ok \/ mark_ok)
          /\ (~mark_ok => r.outcome = "record_failed")
          /\ ledger' = r.ledger
          /\ delivered' = IF r.deliver THEN BagAdd(delivered, key) ELSE delivered
          /\ last_seen' = IF r.outcome = "seen" THEN key ELSE last_seen
          /\ faults' = IF seen_ok /\ mark_ok THEN faults ELSE faults - 1
          /\ fault_kind' = IF ~seen_ok THEN "seen" ELSE IF ~mark_ok THEN "mark" ELSE fault_kind
          /\ IF rest = <<>>
               THEN AfterGroup
               ELSE vk_posts' = rest /\ UNCHANGED <<vk_pc, vk_i>>
  /\ UNCHANGED <<db_vars, now, vk_is_running, vk_snapshot, vk_session, tg_vars, other_vars,
                 restarts, db_conns, admins, bot_vars>>

\* await asyncio.sleep(self.check_interval)
VKSleep ==
  /\ vk_pc = "sleep"
  /\ vk_pc' = "loop"
  /\ UNCHANGED <<ledger, db_vars, now, vk_is_running, vk_snapshot, vk_i, vk_posts, vk_session,
                 tg_vars,
                 delivered, last_seen, other_vars, faults, fault_kind, restarts, db_conns, admins, bot_vars>>

\* ------------------------------------------------------------------ Telegram lane
NoSource == [name |-> "None"]

\* a search by chat id alone
find_source_chat_only(sources, chat_id, topic_id) ==
  IF \E i \in 1..Len(sources) : sources[i].chat_id = chat_id
    THEN sources[CHOOSE i \in 1..Len(sources) :
                   /\ sources[i].chat_id = chat_id
                   /\ \A j \in 1..(i - 1) : sources[j].chat_id # chat_id]
    ELSE NoSource

RECURSIVE find_source(_, _, _)
find_source(sources, chat_id, topic_id) ==
  IF sources = <<>> THEN NoSource
  ELSE LET source == Head(sources) IN
       IF /\ source.chat_id = chat_id
          /\ (source.topic_id # 0 => source.topic_id = topic_id)
         THEN source
         ELSE find_source(Tail(sources), chat_id, topic_id)

\* the events the client may dispatch; reply_to 0 is no reply_to
Messages(chats, texts) == [chat_id : chats, reply_to : {0}, id : 1..MaxMsgId, text : texts]

TGKey(message) == <<"telegram", Str(message.id), Str(message.chat_id)>>

\* TelegramParser.start: load_sources, then the handler is registered.  A
\* failed load raises out of start and ends its task.
TGStart ==
  /\ tg_pc = "init"
  /\ tg_is_running' = TRUE
  /\ \E ok \in Oks :
       IF ok
         THEN /\ tg_sources' = EnabledOnly(tg_sources_tbl)
              /\ tg_registered' = TRUE
              /\ tg_pc' = "running"
              /\ UNCHANGED <<faults, fault_kind>>
         ELSE /\ tg_pc' = "failed"
              /\ faults' = faults - 1
              /\ fault_kind' = "config"
              /\ UNCHANGED <<tg_sources, tg_registered>>
  /\ UNCHANGED <<ledger, db_vars, now, vk_vars, tg_inflight, delivered, last_seen, other_vars, restarts, db_conns, admins, bot_vars>>

\* the while loop of start ends once is_running is False; the handler stays
\* registered on the client
TGExit ==
  /\ tg_pc = "running"
  /\ ~tg_is_running
  /\ tg_pc' = "done"
  /\ UNCHANGED <<ledger, db_vars, now, vk_vars, tg_is_running, tg_registered,
                 tg_sources, tg_inflight, delivered, last_seen, other_vars, faults, fault_kind, restarts, db_conns, admins, bot_vars>>

\* a handler that asks the ledger before it looks for the source
handle_check_lookup_first(message, sources, led, seen_ok) ==
  LET source == find_source(sources, message.chat_id, message.reply_to)
      answer(why, looked_up) == [outcome |-> why, source |-> source, looked_up |-> looked_up]
  IN IF ~seen_ok THEN answer("seen_error", TRUE)
     ELSE IF is_processed(led, "telegram", Str(message.id), Str(message.chat_id))
       THEN answer("seen", TRUE)
     ELSE IF source = NoSource THEN answer("no_source", TRUE)
     ELSE IF message.text = {} /\ ~source.all_posts THEN answer("empty", TRUE)
     ELSE answer("unseen", TRUE)

\* a handler whose duplicate check looks at the chat and not at the message id
handle_check_ignore_id(message, sources, led, seen_ok) ==
  LET source == find_source(sources, message.chat_id, message.reply_to)
      answer(why, looked_up) == [outcome |-> why, source |-> source, looked_up |-> looked_up]
  IN IF source = NoSource THEN answer("no_source", FALSE)
     ELSE IF ~seen_ok THEN answer("seen_error", TRUE)
     ELSE IF \E r \in led : r.source_type = "telegram" /\ r.source_group = Str(message.chat_id)
       THEN answer("seen", TRUE)
     ELSE IF message.text = {} /\ ~source.all_posts THEN answer("empty", TRUE)
     ELSE answer("unseen", TRUE)

\* handle_new_message from the event to the answer of is_processed and the
\* text test.  seen_ok = FALSE: is_processed raises, which the try of
\* handle_new_message catches.
handle_check(message, sources, led, seen_ok) ==
  LET chat_id == message.chat_id
      topic_id == message.reply_to
      source == find_source(sources, chat_id, topic_id)
      message_id == Str(message.id)
      text == message.text
      answer(why, looked_up) == [outcome |-> why, source |-> source, looked_up |-> looked_up]
  IN IF source = NoSource THEN answer("no_source", FALSE)
     ELSE IF ~seen_ok THEN answer("seen_error", TRUE)
     ELSE IF is_processed(led, "telegram", message_id, Str(chat_id)) THEN answer("seen", TRUE)
     ELSE IF text = {} /\ ~source.all_posts THEN answer("empty", TRUE)
     ELSE answer("unseen", TRUE)

\* a handler that also drops a message whose text is already in the ledger
\* under any key
handle_rest_content_dedup(message, source, topics, led, ts, topics_ok, mark_ok) ==
  LET text == message.text
      target_topic == TG_determine_target_topic(text, source, topics)
      marked == mark_processed(led, "telegram", Str(message.id), Str(message.chat_id),
                               target_topic.topic_id, md5(text), ts, mark_ok)
      drop(why) == [outcome |-> why, topic |-> None, ledger |-> led, deliver |-> FALSE]
  IN IF ~topics_ok THEN drop("error")
     ELSE IF \E r \in led : r.content_hash = md5(text) THEN drop("no_topic")
     ELSE IF target_topic = None THEN drop("no_topic")
     ELSE [outcome |-> IF marked.ret THEN "recorded" ELSE "record_failed",
           topic |-> target_topic, ledger |-> marked.ledger, deliver |-> TRUE]

\* the rest of handle_new_message: get_topics, determine_target_topic, the
\* delivery point and mark_processed.  topics_ok = FALSE: get_topics raises,
\* caught by the try.  mark_ok = FALSE: the INSERT of mark_processed fails.
handle_rest(message, source, topics, led, ts, topics_ok, mark_ok) ==
  LET text == message.text
      target_topic == TG_determine_target_topic(text, source, topics)
      marked == mark_processed(led, "telegram", Str(message.id), Str(message.chat_id),
                               target_topic.topic_id, md5(text), ts, mark_ok)
      drop(why) == [outcome |-> why, topic |-> None, ledger |-> led, deliver |-> FALSE]
  IN IF ~topics_ok THEN drop("error")
     ELSE IF target_topic = None THEN drop("no_topic")
     ELSE [outcome |-> IF marked.ret THEN "recorded" ELSE "record_failed",
           topic |-> target_topic, ledger |-> marked.ledger, deliver |-> TRUE]

\* an event is dispatched to the handler, which runs to its first suspension
TGEvent(chats, texts) ==
  /\ tg_registered
  /\ BagSize(tg_inflight) < MaxInflight
  /\ \E message \in Messages(chats, texts), seen_ok \in Oks :
       LET c == handle_check(message, tg_sources, ledger, seen_ok)
       IN /\ (~seen_ok => c.outcome = "seen_error")
          /\ faults' = IF seen_ok THEN faults ELSE faults - 1
          /\ fault_kind' = IF seen_ok THEN fault_kind ELSE "seen"
          /\ last_seen' = IF c.outcome = "seen" THEN TGKey(message) ELSE last_seen
          /\ tg_inflight' = IF c.outcome = "unseen"
                              THEN BagAdd(tg_inflight, [message |-> message, source |-> c.source])
                              ELSE tg_inflight
  /\ UNCHANGED <<ledger, db_vars, now, vk_vars, tg_is_running, tg_pc, tg_registered,
                 tg_sources, delivered, other_vars, restarts, db_conns, admins, bot_vars>>

\* a suspended handler runs to its end
TGFinish ==
  /\ \E h \in DOMAIN tg_inflight, topics_ok \in Oks, mark_ok \in Oks :
       LET r == handle_rest(h.message, h.source, topics_tbl, ledger, now, topics_ok, mark_ok)
       IN /\ (topics_ok \/ mark_ok)
          /\ (~mark_ok => r.outcome = "record_failed")
          /\ tg_inflight' = BagRemove(tg_inflight, h)
          /\ ledger' = r.ledger
          /\ delivered' = IF r.deliver THEN BagAdd(delivered, TGKey(h.message)) ELSE delivered
          /\ faults' = IF topics_ok /\ mark_ok THEN faults ELSE faults - 1
          /\ fault_kind' = IF ~topics_ok THEN "topics" ELSE IF ~mark_ok THEN "mark" ELSE fault_kind
  /\ UNCHANGED <<db_vars, now, vk_vars, tg_is_running, tg_pc, tg_registered,
                 tg_sources, last_seen, other_vars, restarts, db_conns, admins, bot_vars>>

\* ------------------------------------------------------------------ process
\* the task of session.close() that VKParser.stop created runs
VKSessionClose ==
  /\ vk_session = "closing"
  /\ vk_session' = "closed"
  /\ UNCHANGED <<ledger, db_vars, now, vk_is_running, vk_pc, vk_snapshot, vk_i, vk_posts,
                 tg_vars, delivered, last_seen, other_vars, faults, fault_kind, restarts, db_conns, admins, bot_vars>>

\* MaslyaninoBot.shutdown: vk_parser.stop() and tg_parser.stop().  run() calls
\* it after start_parsers and a first suspension, when both tasks have begun.
Shutdown ==
  /\ vk_pc # "init"
  /\ tg_pc # "init"
  /\ vk_is_running \/ tg_is_running
  /\ vk_is_running' = FALSE
  /\ vk_session' = IF vk_session = "open" THEN "closing" ELSE vk_session
  /\ tg_is_running' = FALSE
  /\ UNCHANGED <<ledger, db_vars, now, vk_pc, vk_snapshot, vk_i, vk_posts,
                 tg_pc, tg_registered, tg_sources, tg_inflight,
                 delivered, last_seen, other_vars, faults, fault_kind, restarts, db_conns, admins, bot_vars>>

\* the process ends and is started again on the same database file: every
\* object is constructed anew, the tables stay
Restart ==
  /\ restarts > 0
  /\ restarts' = restarts - 1
  /\ vk_is_running' = FALSE
  /\ vk_pc' = "init"
  /\ vk_snapshot' = NoSnapshot
  /\ vk_i' = 0
  /\ vk_posts' = <<>>
  /\ vk_session' = "none"
  /\ tg_is_running' = FALSE
  /\ tg_pc' = "init"
  /\ tg_registered' = FALSE
  /\ tg_sources' = <<>>
  /\ tg_inflight' = EmptyBag
  /\ last_seen' = <<>>
  /\ db_conns' = NoConns
  /\ UNCHANGED <<ledger, db_vars, now, delivered, other_vars, faults, fault_kind,
               admins, bot_vars>>

\* ------------------------------------------------------------------ pipeline
Init ==
  /\ ledger = {}
  /\ vk_groups_tbl = <<GroupA, GroupB>>
  /\ tg_sources_tbl = <<SourceA>>
  /\ topics_tbl = DefaultTopics
  /\ ad_keywords_tbl = {"kazino"}
  /\ now = 0
  /\ vk_is_running = FALSE
  /\ vk_pc = "init"
  /\ vk_snapshot = NoSnapshot
  /\ vk_i = 0
  /\ vk_posts = <<>>
  /\ vk_session = "none"
  /\ tg_is_running = FALSE
  /\ tg_pc = "init"
  /\ tg_registered = FALSE
  /\ tg_sources = <<>>
  /\ tg_inflight = EmptyBag
  /\ delivered = EmptyBag
  /\ last_seen = <<>>
  /\ db_last = NoCall
  /\ cl = NoDecision
  /\ vk_limiter = [request_count |-> 0, last_request_reset |-> 0]
  /\ rl_run = [clock |-> 0, pc |-> "acquire", acquired |-> 0, first_at |-> 0,
               done_at |-> 0, permit |-> FALSE]
  /\ faults = MaxFaults
  /\ fault_kind = "none"
  /\ restarts = MaxRestarts
  /\ db_conns = NoConns
  /\ admins = {}
  /\ fsm_state = "None"
  /\ fsm_data = NoData
  /\ post_storage = << >>
  /\ sched_tasks = {}
  /\ bot_clock = 0
  /\ bot_pc = "down"

\* the two lanes, and restarts of the process
Next ==
  \/ VKStart
  \/ VKTick
  \/ VKCheckGroup(PipeTexts)
  \/ VKProcessPost
  \/ VKSleep
  \/ TGStart
  \/ TGEvent(PipeChats, PipeTexts)
  \/ TGFinish
  \/ Restart

Spec == Init /\ [][Next]_vars

\* the pipeline with the shutdown signal
NextStop == Next \/ Shutdown \/ VKSessionClose \/ TGExit

SpecStop == Init /\ [][NextStop]_vars

\* the VK lane alone (no Telegram account configured), scheduled fairly: the
\* event loop resumes the task of start whenever its sleep or request ends
VKLane ==
  \/ VKStart
  \/ VKTick
  \/ VKCheckGroup(PipeTexts)
  \/ VKProcessPost
  \/ VKSleep

NextVK == VKLane \/ Restart

FairSpec == Init /\ [][NextVK]_vars /\ WF_vars(VKLane)

\* ------------------------------------------------------------------ ledger interface
\* direct calls of Database.is_processed and Database.mark_processed
LedgerTypes == {"vk", "telegram"}
LedgerIds == {Str(1)}
LedgerGroups == {<<"1", "2">>, <<"1", "3">>}
LedgerPayloads == {[topic |-> 103, hash |-> md5(TextSell)],
                   [topic |-> 104, hash |-> md5(TextThanks)]}

DbMark ==
  /\ \E t \in LedgerTypes, id \in LedgerIds, g \in LedgerGroups,
        pl \in LedgerPayloads, ok \in BOOLEAN :
       LET r == mark_processed(ledger, t, id, g, pl.topic, pl.hash, now, ok)
       IN /\ ledger' = r.ledger
          /\ db_last' = [op |-> "mark_processed", key |-> <<t, id, g>>, topic |-> pl.topic,
                         hash |-> pl.hash, ts |-> now, ok |-> ok, ret |-> r.ret]
  /\ UNCHANGED <<db_vars, now, vk_vars, tg_vars, delivered, last_seen, cl, limiter_vars,
                 faults, fault_kind, restarts, db_conns, admins, bot_vars>>

DbIsProcessed ==
  /\ \E t \in LedgerTypes, id \in LedgerIds, g \in LedgerGroups :
       db_last' = [op |-> "is_processed", key |-> <<t, id, g>>, topic |-> 0,
                   hash |-> md5({}), ts |-> now, ok |-> TRUE,
                   ret |-> is_processed(ledger, t, id, g)]
  /\ UNCHANGED <<ledger, db_vars, now, vk_vars, tg_vars, delivered, last_seen, cl, limiter_vars,
                 faults, fault_kind, restarts, db_conns, admins, bot_vars>>

\* CURRENT_TIMESTAMP advances
TimePasses ==
  /\ now < MaxTime
  /\ now' = now + 1
  /\ UNCHANGED <<ledger, db_vars, vk_vars, tg_vars, delivered, last_seen, other_vars,
                 faults, fault_kind, restarts, db_conns, admins, bot_vars>>

NextLedger == DbMark \/ DbIsProcessed \/ TimePasses

SpecLedger == Init /\ [][NextLedger]_vars

\* ------------------------------------------------------------------ one item on its own
\* the texts, source configurations and topic catalogs one item is decided on
ClassTexts ==
  {{}, {"otdam", "prodam"}, {"kuplyu", "prodayu"}, {"OTDAM", "tsena"},
   {"prodam", "divan", "tsena", "rub"}, {"spasibo"}, {"divan", "remont"},
   {"DIVAN", "REMONT", "zavtra"}, {"divan"}, {"kazino", "otdam"}, {"PRODAM"},
   {"KAZINO", "prodam"}, {"divan", "subbota"}, {"divan", "rub"}}

ClassGroups ==
  [name : {"a"}, group_id : {<<"1", "2">>}, target_topic : {"novosti"},
   all_posts : BOOLEAN, classifier_type : {"none", "buy_sell", "keywords"},
   keywords : {{}, {"Divan"}}, exclude_keywords : {{}, {"Remont"}},
   require_date_or_price : BOOLEAN, enabled : {TRUE}]

ClassSources ==
  [name : {"a"}, chat_id : {12}, topic_id : {0}, target_topic : {"novosti"},
   all_posts : BOOLEAN, classifier_type : {"none", "buy_sell", "keywords"},
   keywords : {{}, {"Divan"}}, show_author : {TRUE}, enabled : {TRUE}]

ClassCatalogs ==
  {DefaultTopics,
   [id \in {"kuplyu", "prodam"} |-> DefaultTopics[id]],
   [id \in {"otdam", "prodam"} |-> DefaultTopics[id]]}

\* process_post on one fetched post whose key is new
ClassifyVK ==
  /\ cl = NoDecision
  /\ \E text \in ClassTexts, group \in ClassGroups, topics \in ClassCatalogs :
       LET post == [id |-> 1, text |-> text]
           r == process_post(post, group, topics, ad_keywords_tbl, ledger, now, TRUE, TRUE)
       IN cl' = [lane |-> "vk", text |-> text, src |-> group, topics |-> topics,
                 target |-> VK_determine_target_topic(post, group, topics),
                 outcome |-> r.outcome, topic |-> r.topic, deliver |-> r.deliver,
                 recorded |-> r.ledger # ledger, raised |-> r.raised]
  /\ UNCHANGED <<ledger, db_vars, now, vk_vars, tg_vars, delivered, last_seen, db_last, limiter_vars,
                 faults, fault_kind, restarts, db_conns, admins, bot_vars>>

\* handle_new_message on one event whose key is new
ClassifyTG ==
  /\ cl = NoDecision
  /\ \E text \in ClassTexts, source \in ClassSources, topics \in ClassCatalogs :
       LET message == [chat_id |-> source.chat_id, reply_to |-> 0, id |-> 1, text |-> text]
           c == handle_check(message, <<source>>, ledger, TRUE)
           r == IF c.outcome = "unseen"
                  THEN handle_rest(message, c.source, topics, ledger, now, TRUE, TRUE)
                  ELSE [outcome |-> c.outcome, topic |-> None, ledger |-> ledger,
                        deliver |-> FALSE]
       IN cl' = [lane |-> "telegram", text |-> text, src |-> source, topics |-> topics,
                 target |-> TG_determine_target_topic(text, source, topics),
                 outcome |-> r.outcome, topic |-> r.topic, deliver |-> r.deliver,
                 recorded |-> r.ledger # ledger, raised |-> FALSE]
  /\ UNCHANGED <<ledger, db_vars, now, vk_vars, tg_vars, delivered, last_seen, db_last, limiter_vars,
                 faults, fault_kind, restarts, db_conns, admins, bot_vars>>

\* process_post or the handler has returned; the next item can be taken
ClassifyReturn ==
  /\ cl # NoDecision
  /\ cl' = NoDecision
  /\ UNCHANGED <<ledger, db_vars, now, vk_vars, tg_vars, delivered, last_seen, db_last, limiter_vars,
                 faults, fault_kind, restarts, db_conns, admins, bot_vars>>

NextClassify == ClassifyVK \/ ClassifyTG \/ ClassifyReturn

SpecClassify == Init /\ [][NextClassify]_vars

\* ------------------------------------------------------------------ properties of the pipeline
\* every key an item of the feeds can have
PipeKeys ==
  {<<"vk", Str(i), g.group_id>> : i \in 1..MaxPostId, g \in {GroupA, GroupB}}
    \cup {<<"telegram", Str(i), Str(c)>> : i \in 1..MaxMsgId, c \in PipeChats}

\* a handler that passed its duplicate check on key k has not finished yet
InFlight(k) == \E h \in DOMAIN tg_inflight : TGKey(h.message) = k

\* the step is an iteration of check_group's for loop
VKStep == vk_pc = "posts" /\ vk_posts' # vk_posts /\ restarts' = restarts

\* the key of the post that iteration works on
VKKeyNow == <<"vk", Str(Head(vk_posts).id), vk_snapshot.groups[vk_i].group_id>>

MarkFailed == fault_kind' = "mark" /\ faults' < faults

SeenFailed == fault_kind' = "seen" /\ faults' < faults

\* C1 (as the spec states it): an accepted VK post that consecutive fetch
\* cycles return again gets one delivery request in total, never two.
C1_Original ==
  \A k \in DOMAIN delivered : k[1] = "vk" => delivered[k] <= 1

\* C1 (amended): a run on an accepted item whose key is not in the ledger
\* requests delivery exactly once and, unless mark_processed fails with a
\* storage error in that run, records the key; a run that starts on a recorded
\* key requests no delivery.  So without storage errors an accepted VK post is
\* delivered exactly once, however often it is fetched.
C1_Idempotent ==
  /\ [](faults = MaxFaults =>
          \A k \in DOMAIN delivered : k[1] = "vk" => delivered[k] = 1 /\ k \in Keys(ledger))
  /\ [][/\ \A k \in PipeKeys :
             Count(delivered', k) # Count(delivered, k) =>
               /\ Count(delivered', k) = Count(delivered, k) + 1
               /\ k \notin Keys(ledger) \/ InFlight(k)
               /\ k \in Keys(ledger') \/ MarkFailed
        /\ \A h \in DOMAIN tg_inflight' :
             Count(tg_inflight', h) > Count(tg_inflight, h) =>
               TGKey(h.message) \notin Keys(ledger)]_vars

\* the second of two fetch cycles dropped a post the first one had delivered
\* and recorded, with no storage error and no restart
C1_Witness ==
  \E k \in PipeKeys :
    /\ k[1] = "vk"
    /\ last_seen = k
    /\ Count(delivered, k) = 1
    /\ k \in Keys(ledger)
    /\ faults = MaxFaults
    /\ restarts = MaxRestarts

\* C2: once a key is in the ledger, no VK tick and no Telegram event that
\* comes later delivers its item or touches its row, and no handler passes the
\* duplicate check on it; the steps after a restart included.
C2_NeverAgain ==
  [][\A k \in Keys(ledger) :
       ~InFlight(k) =>
         /\ Count(delivered', k) = Count(delivered, k)
         /\ \A r \in ledger : KeyOf(r) = k => r \in ledger'
         /\ ~InFlight(k)']_vars

\* after a restart a Telegram message delivered before it was dropped as seen
C2_Witness ==
  \E k \in PipeKeys :
    /\ k[1] = "telegram"
    /\ last_seen = k
    /\ restarts < MaxRestarts
    /\ Count(delivered, k) = 1

\* C3: an item is treated as already seen only when its own triple is in the
\* ledger: the same item id recorded for another collection or another source
\* kind never makes it seen.
C3_KeyIndependence ==
  /\ last_seen # <<>> => last_seen \in Keys(ledger)
  /\ \A k \in PipeKeys : is_processed(ledger, k[1], k[2], k[3]) <=> k \in Keys(ledger)

\* post 1 of both VK groups and message 1 of chat 12 were all delivered and
\* recorded
C3_Witness ==
  \A k \in {<<"vk", Str(1), GroupA.group_id>>, <<"vk", Str(1), GroupB.group_id>>,
            <<"telegram", Str(1), Str(SourceA.chat_id)>>} :
    Count(delivered, k) = 1 /\ k \in Keys(ledger)

\* C5: when mark_processed fails with a storage error the ledger is left as it
\* was; in the VK lane the key stays absent, the for loop goes on to the next
\* post of the batch, and a later pass over a post whose key is absent runs
\* the whole of process_post again, delivery included.
C5_FailClosed ==
  [][/\ MarkFailed => ledger' = ledger
     /\ (MarkFailed /\ VKStep) =>
          /\ VKKeyNow \notin Keys(ledger')
          /\ Count(delivered', VKKeyNow) = Count(delivered, VKKeyNow) + 1
          /\ IF Len(vk_posts) > 1
               THEN vk_posts' = Tail(vk_posts) /\ vk_pc' = "posts" /\ vk_i' = vk_i
               ELSE vk_pc' = (IF vk_i < Len(vk_snapshot.groups) THEN "group" ELSE "sleep")
     /\ (VKStep /\ ~SeenFailed /\ VKKeyNow \notin Keys(ledger)) =>
          LET fresh == process_post(Head(vk_posts), vk_snapshot.groups[vk_i],
                                    vk_snapshot.topics, vk_snapshot.ad_keywords,
                                    {}, now, TRUE, TRUE)
          IN fresh.deliver =>
               Count(delivered', VKKeyNow) = Count(delivered, VKKeyNow) + 1]_vars

\* a VK post whose record failed was fetched again, delivered again and recorded
C5_Witness ==
  \E k \in PipeKeys :
    /\ k[1] = "vk"
    /\ fault_kind = "mark"
    /\ Count(delivered, k) = 2
    /\ k \in Keys(ledger)

C7_BatchContinues ==
  [][(VKStep /\ Len(vk_posts) > 1) => vk_posts' = Tail(vk_posts)]_vars

\* ------------------------------------------------------------------ properties of the ledger
\* C4: mark_processed on a key the ledger already holds changes nothing and
\* returns True, whatever topic id, hash and time the call carries; the ledger
\* never holds two rows with one key.
C4_RecordIdempotent ==
  /\ [](\A r1 \in ledger : \A r2 \in ledger : KeyOf(r1) = KeyOf(r2) => r1 = r2)
  /\ [][(/\ db_last'.op = "mark_processed"
         /\ db_last'.ok
         /\ db_last'.key \in Keys(ledger)) =>
          (ledger' = ledger /\ db_last'.ret = TRUE)]_vars

\* the last call carried another topic id, hash and time than the row of its
\* key holds, and returned True
C4_Witness ==
  /\ db_last.op = "mark_processed"
  /\ db_last.ret = TRUE
  /\ \E r \in ledger :
       /\ KeyOf(r) = db_last.key
       /\ r.target_topic_id # db_last.topic
       /\ r.content_hash # db_last.hash
       /\ r.processed_at # db_last.ts

\* ------------------------------------------------------------------ properties of the VK loop
\* C8: whatever happens to one group, the for loop of check_all_groups goes on
\* to the next group and reaches the sleep only after the last one, the task
\* never ends while the parser is running, and from every point of a tick the
\* loop comes to the sleep and from there to the next tick.
C8_VKLaneGoesOn ==
  /\ [][(vk_pc \in {"group", "posts"} /\ restarts' = restarts) =>
          /\ vk_pc' \in {"group", "posts", "sleep"}
          /\ vk_pc' = "sleep" => vk_i = Len(vk_snapshot.groups)
          /\ vk_i' # vk_i =>
               \/ vk_i < Len(vk_snapshot.groups) /\ vk_i' = vk_i + 1 /\ vk_pc' = "group"
               \/ vk_i = Len(vk_snapshot.groups) /\ vk_i' = 0 /\ vk_pc' = "sleep"]_vars
  /\ [](vk_is_running => vk_pc # "done")
  /\ (vk_pc = "loop") ~> (vk_pc \in {"group", "sleep"})
  /\ (vk_pc \in {"group", "posts"}) ~> (vk_pc = "sleep")
  /\ (vk_pc = "sleep") ~> (vk_pc = "loop")

\* is_processed raised in the first group and the second group is being
\* worked on
C8_Witness ==
  /\ fault_kind = "seen"
  /\ vk_pc = "posts"
  /\ vk_i = 2
  /\ delivered = EmptyBag

\* ------------------------------------------------------------------ properties of one decision
\* C9: under buy_sell without all_posts the classifier answers the catalog's
\* otdam for a text with a giveaway word, else its kuplyu for a text with a
\* buy word, else its prodam for a text with a selling word, else nothing; an
\* item is delivered to no other topic than the classifier's.
C9_ClassifierPriority ==
  (cl.lane \in {"vk", "telegram"} /\ ~cl.src.all_posts /\ cl.src.classifier_type = "buy_sell") =>
    LET words == lower(cl.text)
        giveaway == words \cap GiveawayWords # {}
        buy == words \cap BuyWords # {}
        sell == words \cap SellWords # {}
    IN /\ giveaway => cl.target = Get(cl.topics, "otdam") /\ cl.target.id # "prodam"
       /\ (~giveaway /\ buy) => cl.target = Get(cl.topics, "kuplyu")
       /\ (~giveaway /\ ~buy /\ sell) => cl.target = Get(cl.topics, "prodam")
       /\ (~giveaway /\ ~buy /\ ~sell) => cl.target = None
       /\ cl.deliver => cl.topic = cl.target
       /\ cl.target = None => ~cl.deliver /\ ~cl.recorded

\* a Telegram message with a giveaway word and a selling word went to otdam
C9_Witness ==
  /\ cl.lane = "telegram"
  /\ ~cl.src.all_posts
  /\ cl.src.classifier_type = "buy_sell"
  /\ {"otdam", "prodam"} \subseteq lower(cl.text)
  /\ cl.deliver
  /\ cl.topic.id = "otdam"

\* C10: a VK post whose text has one of its group's exclude-keywords is
\* neither delivered nor recorded, although it has one of the group's keywords
\* under the keywords strategy, or although the group has all_posts set.
C10_ExcludeBeatsInclude ==
  (/\ cl.lane = "vk"
   /\ \E w \in cl.src.exclude_keywords : LowerWord(w) \in lower(cl.text)
   /\ \/ cl.src.all_posts
      \/ /\ cl.src.classifier_type = "keywords"
         /\ \E w \in cl.src.keywords : LowerWord(w) \in lower(cl.text)) =>
    (~cl.deliver /\ ~cl.recorded /\ cl.topic = None)

\* a post with a keyword and an exclude-keyword that the classifier alone
\* would have accepted was dropped
C10_Witness ==
  /\ cl.lane = "vk"
  /\ ~cl.src.all_posts
  /\ cl.src.classifier_type = "keywords"
  /\ cl.src.keywords = {"Divan"}
  /\ cl.src.exclude_keywords = {"Remont"}
  /\ cl.text = {"DIVAN", "REMONT", "zavtra"}
  /\ cl.target # None
  /\ cl.outcome = "exclude"

\* C11 (as the spec states it): in both lanes an item whose text has a global
\* ad-keyword, in any letter case, is neither delivered nor recorded.
C11_AdFilterBothLanes ==
  (/\ cl.lane \in {"vk", "telegram"}
   /\ \E w \in ad_keywords_tbl : LowerWord(w) \in lower(cl.text)) =>
    (~cl.deliver /\ ~cl.recorded)

\* C12: a VK post of a group with require_date_or_price whose text has no
\* weekday, month-name or relative-day word and no currency word or symbol is
\* neither delivered nor recorded, all_posts or not; a post whose only marker
\* is a price marker, and that nothing else rejects, is delivered.
C12_DatePriceGate ==
  (cl.lane = "vk" /\ cl.src.require_date_or_price) =>
    LET words == lower(cl.text)
        weekdays == {"ponedelnik", "vtornik", "sreda", "chetverg", "pyatnitsa",
                     "subbota", "voskresenye"}
        date_like == words \cap (weekdays \cup date_indicators) # {}
        price_like == words \cap price_indicators # {}
        filtered == \/ \E w \in ad_keywords_tbl : LowerWord(w) \in words
                    \/ \E w \in cl.src.exclude_keywords : LowerWord(w) \in words
    IN /\ (~date_like /\ ~price_like) => (~cl.deliver /\ ~cl.recorded)
       /\ (price_like /\ ~date_like /\ ~filtered /\ cl.target # None) =>
            (cl.deliver /\ cl.recorded /\ cl.topic = cl.target)

\* a post without a marker that an all_posts group would have accepted was
\* dropped at the gate
C12_Witness ==
  /\ cl.lane = "vk"
  /\ cl.src.require_date_or_price
  /\ cl.src.all_posts
  /\ cl.text = {"divan"}
  /\ cl.target # None
  /\ cl.outcome = "gate"
  /\ ~cl.deliver

\* C13: for a source with all_posts set, an item that the ad-keywords, the
\* exclude-keywords and the date/price gate let through is delivered to the
\* catalog's entry for the source's target_topic, whatever the strategy, the
\* keyword list and the words of the text are.
C13_AllPosts ==
  (/\ cl.lane \in {"vk", "telegram"}
   /\ cl.src.all_posts
   /\ cl.src.target_topic \in DOMAIN cl.topics
   /\ ~\E w \in ad_keywords_tbl : LowerWord(w) \in lower(cl.text)
   /\ cl.lane = "vk" =>
        /\ ~\E w \in cl.src.exclude_keywords : LowerWord(w) \in lower(cl.text)
        /\ cl.src.require_date_or_price => (contains_date(cl.text) \/ contains_price(cl.text))) =>
    (/\ cl.target = cl.topics[cl.src.target_topic]
     /\ cl.deliver
     /\ cl.recorded
     /\ cl.topic = cl.topics[cl.src.target_topic])

\* a post that matches no family went to the target topic of its all_posts
\* group, whose strategy is buy_sell
C13_Witness ==
  /\ cl.lane = "vk"
  /\ cl.src.all_posts
  /\ cl.src.classifier_type = "buy_sell"
  /\ cl.src.keywords = {}
  /\ cl.text = {"spasibo"}
  /\ cl.deliver
  /\ cl.topic.id = "novosti"

\* C14: without all_posts the classifier answers nothing under strategy none,
\* and under strategy keywords it answers the catalog's entry for the source's
\* target_topic exactly when the text has one of the source's keywords in any
\* letter case; an item is delivered only if the classifier answered, and is
\* delivered when it answered and no filter or gate of its lane rejects it.
C14_NoneAndKeywords ==
  (cl.lane \in {"vk", "telegram"} /\ ~cl.src.all_posts) =>
    LET words == lower(cl.text)
        has_keyword == \E w \in cl.src.keywords : LowerWord(w) \in words
        passes == cl.lane = "vk" =>
                    /\ ~\E w \in ad_keywords_tbl : LowerWord(w) \in words
                    /\ ~\E w \in cl.src.exclude_keywords : LowerWord(w) \in words
                    /\ cl.src.require_date_or_price =>
                         (contains_date(cl.text) \/ contains_price(cl.text))
    IN /\ cl.src.classifier_type = "none" => (cl.target = None /\ ~cl.deliver /\ ~cl.recorded)
       /\ cl.src.classifier_type = "keywords" =>
            /\ cl.target = (IF has_keyword THEN Get(cl.topics, cl.src.target_topic) ELSE None)
            /\ cl.deliver => (has_keyword /\ cl.topic = Get(cl.topics, cl.src.target_topic))
            /\ (has_keyword /\ passes /\ cl.src.target_topic \in DOMAIN cl.topics) =>
                 (cl.deliver /\ cl.recorded)
            /\ cl.src.keywords = {} => ~cl.deliver

\* a Telegram message with the keyword in another letter case went to the
\* target topic of its keywords source
C14_Witness ==
  /\ cl.lane = "telegram"
  /\ ~cl.src.all_posts
  /\ cl.src.classifier_type = "keywords"
  /\ cl.src.keywords = {"Divan"}
  /\ "DIVAN" \in cl.text
  /\ cl.deliver
  /\ cl.topic.id = "novosti"

\* C15: when the topic id the classifier resolves (the source's target_topic
\* under all_posts and keywords, the family's topic under buy_sell) is not in
\* the catalog, the item is dropped without an exception: not delivered, not
\* recorded, and the pass ends as for any rejected item.
C15_UnresolvedTopic ==
  cl.lane \in {"vk", "telegram"} =>
    LET words == lower(cl.text)
        resolved ==
          IF cl.src.all_posts THEN cl.src.target_topic
          ELSE IF cl.src.classifier_type = "buy_sell" THEN
            IF words \cap GiveawayWords # {} THEN "otdam"
            ELSE IF words \cap BuyWords # {} THEN "kuplyu"
            ELSE IF words \cap SellWords # {} THEN "prodam"
            ELSE "nothing"
          ELSE IF /\ cl.src.classifier_type = "keywords"
                  /\ \E w \in cl.src.keywords : LowerWord(w) \in words
            THEN cl.src.target_topic
          ELSE "nothing"
    IN (resolved # "nothing" /\ resolved \notin DOMAIN cl.topics) =>
         /\ cl.target = None
         /\ ~cl.deliver
         /\ ~cl.recorded
         /\ ~cl.raised
         /\ cl.outcome \in {"empty", "ad", "exclude", "gate", "no_topic"}

\* a giveaway post was dropped because the catalog has no otdam
C15_Witness ==
  /\ cl.lane = "vk"
  /\ ~cl.src.all_posts
  /\ cl.src.classifier_type = "buy_sell"
  /\ cl.text = {"otdam", "prodam"}
  /\ "otdam" \notin DOMAIN cl.topics
  /\ cl.outcome = "no_topic"
  /\ ~cl.raised

\* ------------------------------------------------------------------ decisions over a changing ledger
\* items decided one after another against the ledger the earlier ones left
DecideTexts == {TextSell, {"otdam", "prodam"}}

DecideVK ==
  /\ \E text \in DecideTexts, group \in {GroupA, GroupB}, topics \in ClassCatalogs :
       LET post == [id |-> 1, text |-> text]
           r == process_post(post, group, topics, ad_keywords_tbl, ledger, now, TRUE, TRUE)
       IN /\ ledger' = r.ledger
          /\ cl' = [lane |-> "vk", text |-> text, src |-> group, topics |-> topics,
                    target |-> VK_determine_target_topic(post, group, topics),
                    outcome |-> r.outcome, topic |-> r.topic, deliver |-> r.deliver,
                    recorded |-> r.ledger # ledger, raised |-> r.raised]
  /\ UNCHANGED <<db_vars, now, vk_vars, tg_vars, delivered, last_seen, db_last, limiter_vars,
                 faults, fault_kind, restarts, db_conns, admins, bot_vars>>

DecideTG ==
  /\ \E text \in DecideTexts, topics \in ClassCatalogs :
       LET source == SourceA
           message == [chat_id |-> source.chat_id, reply_to |-> 0, id |-> 1, text |-> text]
           c == handle_check(message, <<source>>, ledger, TRUE)
           r == IF c.outcome = "unseen"
                  THEN handle_rest(message, c.source, topics, ledger, now, TRUE, TRUE)
                  ELSE [outcome |-> c.outcome, topic |-> None, ledger |-> ledger,
                        deliver |-> FALSE]
       IN /\ ledger' = r.ledger
          /\ cl' = [lane |-> "telegram", text |-> text, src |-> source, topics |-> topics,
                    target |-> TG_determine_target_topic(text, source, topics),
                    outcome |-> r.outcome, topic |-> r.topic, deliver |-> r.deliver,
                    recorded |-> r.ledger # ledger, raised |-> FALSE]
  /\ UNCHANGED <<db_vars, now, vk_vars, tg_vars, delivered, last_seen, db_last, limiter_vars,
                 faults, fault_kind, restarts, db_conns, admins, bot_vars>>

NextDecide == DecideVK \/ DecideTG \/ TimePasses

SpecDecide == Init /\ [][NextDecide]_vars

\* C16: the decision on an item that is not a duplicate is the decision the
\* same text, source configuration, ad-keywords and catalog get on an empty
\* ledger at time 0, whatever was decided and recorded before; the classifier's
\* answer stays what the same arguments give in any later state; a pass
\* changes the ledger only by the row of an item it delivered, and changes no
\* configuration table.
C16_PureDecision ==
  /\ [](cl.lane \in {"vk", "telegram"} =>
          LET post == [id |-> 1, text |-> cl.text]
              message == [chat_id |-> cl.src.chat_id, reply_to |-> 0, id |-> 1, text |-> cl.text]
              fresh == IF cl.lane = "vk"
                         THEN process_post(post, cl.src, cl.topics, ad_keywords_tbl,
                                           {}, 0, TRUE, TRUE)
                         ELSE handle_rest(message, cl.src, cl.topics, {}, 0, TRUE, TRUE)
              again == IF cl.lane = "vk"
                         THEN VK_determine_target_topic(post, cl.src, cl.topics)
                         ELSE TG_determine_target_topic(cl.text, cl.src, cl.topics)
          IN /\ cl.target = again
             /\ cl.outcome # "seen" =>
                  (cl.topic = fresh.topic /\ cl.deliver = fresh.deliver))
  /\ [][/\ ledger' # ledger =>
             (cl'.deliver /\ ledger \subseteq ledger' /\ Cardinality(ledger' \ ledger) = 1)
        /\ UNCHANGED db_vars]_vars

\* a Telegram message was classified and delivered while the ledger already
\* held two VK rows, one of them with the same text
C16_Witness ==
  /\ cl.lane = "telegram"
  /\ cl.deliver
  /\ cl.recorded
  /\ Cardinality(ledger) = 3
  /\ \E r \in ledger : r.source_type = "vk" /\ r.content_hash = md5(cl.text)
  /\ now > 0

\* ------------------------------------------------------------------ rate limiter
\* the body of check_all_groups' for loop as the VK API sees it: the clock
\* counts ticks of 1/TicksPerSecond second
seconds(ticks) == ticks \div TicksPerSecond

\* VKParser.check_rate_limits, called once before check_group
RLAcquire ==
  /\ rl_run.pc = "acquire"
  /\ rl_run.acquired < MaxAcquires
  /\ LET now_ == rl_run.clock
         expired == seconds(now_ - vk_limiter.last_request_reset) >= 1
         count == IF expired THEN 0 ELSE vk_limiter.request_count
         reset == IF expired THEN now_ ELSE vk_limiter.last_request_reset
         wait_time == 1 - seconds(now_ - reset)
         sleeps == count >= RateLimit /\ wait_time > 0
         after == IF sleeps THEN now_ + wait_time * TicksPerSecond ELSE now_
     IN /\ after <= MaxClock
        /\ vk_limiter' = IF sleeps
                           THEN [request_count |-> 0, last_request_reset |-> after]
                           ELSE [request_count |-> count, last_request_reset |-> reset]
        /\ \E numeric \in BOOLEAN :
             rl_run' = [clock |-> after,
                        pc |-> IF numeric THEN "fetch" ELSE "resolve",
                        acquired |-> rl_run.acquired + 1,
                        first_at |-> IF rl_run.acquired = 0 THEN now_ ELSE rl_run.first_at,
                        done_at |-> after,
                        permit |-> TRUE]
  /\ UNCHANGED <<ledger, db_vars, now, vk_vars, tg_vars, delivered, last_seen, db_last, cl,
                 faults, fault_kind, restarts, db_conns, admins, bot_vars>>

\* get_group_owner_id: the groups.getById request of a short-name group; when
\* it answers no id, check_group returns
RLResolve ==
  /\ rl_run.pc = "resolve"
  /\ vk_limiter' = [vk_limiter EXCEPT !.request_count = @ + 1]
  /\ \E resolved \in BOOLEAN :
       rl_run' = [rl_run EXCEPT !.permit = FALSE,
                                !.pc = IF resolved THEN "fetch" ELSE "pause"]
  /\ UNCHANGED <<ledger, db_vars, now, vk_vars, tg_vars, delivered, last_seen, db_last, cl,
                 faults, fault_kind, restarts, db_conns, admins, bot_vars>>

\* get_group_posts: the wall.get request, then the for loop over the posts;
\* an exception from process_post skips the sleep between groups
RLFetch ==
  /\ rl_run.pc = "fetch"
  /\ vk_limiter' = [vk_limiter EXCEPT !.request_count = @ + 1]
  /\ \E raised \in BOOLEAN :
       rl_run' = [rl_run EXCEPT !.permit = FALSE,
                                !.pc = IF raised THEN "acquire" ELSE "pause"]
  /\ UNCHANGED <<ledger, db_vars, now, vk_vars, tg_vars, delivered, last_seen, db_last, cl,
                 faults, fault_kind, restarts, db_conns, admins, bot_vars>>

\* await asyncio.sleep(1) between groups
RLPause ==
  /\ rl_run.pc = "pause"
  /\ rl_run.clock + TicksPerSecond <= MaxClock
  /\ rl_run' = [rl_run EXCEPT !.clock = @ + TicksPerSecond, !.pc = "acquire"]
  /\ UNCHANGED <<ledger, db_vars, now, vk_vars, tg_vars, delivered, last_seen, db_last, cl,
                 vk_limiter, faults, fault_kind, restarts, db_conns, admins, bot_vars>>

\* time passes while the task waits for an answer or for its turn
RLTime ==
  /\ rl_run.clock < MaxClock
  /\ rl_run' = [rl_run EXCEPT !.clock = @ + 1]
  /\ UNCHANGED <<ledger, db_vars, now, vk_vars, tg_vars, delivered, last_seen, db_last, cl,
                 vk_limiter, faults, fault_kind, restarts, db_conns, admins, bot_vars>>

NextLimiter == RLAcquire \/ RLResolve \/ RLFetch \/ RLPause \/ RLTime

SpecLimiter == Init /\ [][NextLimiter]_vars

\* C17 (as the spec states it): the calls of check_rate_limits made so far,
\* M of them, took from the start of the first to the return of the last no
\* less than ceil(M / 3) - 1 seconds.
C17_RateBound ==
  rl_run.acquired > 0 =>
    rl_run.done_at - rl_run.first_at >=
      (((rl_run.acquired + RateLimit - 1) \div RateLimit) - 1) * TicksPerSecond

\* C18 (as the spec states it): a request is sent only with a permission that
\* check_rate_limits gave since the request before it.
C18_AcquireBeforeEachRequest ==
  [][vk_limiter'.request_count > vk_limiter.request_count => rl_run.permit]_vars

\* ------------------------------------------------------------------ Telegram events and sources
\* the telegram_sources tables load_sources may find: up to two rows, for the
\* chats and sub-topics below; topic_id 0 is no sub-topic, and the table's
\* UNIQUE(chat_id, topic_id) keeps two rows from naming the same sub-topic
EventChats == {12, 99}
EventTopics == {0, 5, 7}

\* message ids and senders of the events: two messages of one chat may carry
\* the same text from the same sender under different ids
EventIds == 1..(MaxMsgId + 1)
EventSenders == {7, 8}

EventSource(name, chat_id, topic_id) ==
  [SourceA EXCEPT !.name = name, !.chat_id = chat_id, !.topic_id = topic_id]

EventSourceTables ==
  {<<>>}
    \cup {<<EventSource("a", c, t)>> : c \in EventChats, t \in EventTopics}
    \cup {tbl \in {<<EventSource("a", c1, t1), EventSource("b", c2, t2)>> :
                     c1 \in EventChats, t1 \in EventTopics,
                     c2 \in EventChats, t2 \in EventTopics} :
            (tbl[1].chat_id = tbl[2].chat_id /\ tbl[1].topic_id # 0)
              => tbl[1].topic_id # tbl[2].topic_id}

\* TelegramParser.load_sources on the table as it stands; the calls of this
\* section are looked at one at a time, cl being cleared between two of them
LoadSources ==
  /\ cl = NoDecision
  /\ \E tbl \in EventSourceTables :
       /\ tg_sources_tbl' = tbl
       /\ tg_sources' = EnabledOnly(tbl)
  /\ UNCHANGED <<ledger, vk_groups_tbl, topics_tbl, ad_keywords_tbl, now, vk_vars,
                 tg_is_running, tg_pc, tg_registered, tg_inflight,
                 delivered, last_seen, other_vars, faults, fault_kind, restarts, db_conns, admins, bot_vars>>

\* TelegramParser.find_source on the loaded sources
FindSource ==
  /\ cl = NoDecision
  /\ \E chat_id \in EventChats, topic_id \in EventTopics :
       cl' = [lane |-> "find_source", sources |-> tg_sources, chat_id |-> chat_id,
              topic_id |-> topic_id, result |-> find_source(tg_sources, chat_id, topic_id)]
  /\ UNCHANGED <<ledger, db_vars, now, vk_vars, tg_vars, delivered, last_seen, db_last,
                 limiter_vars, faults, fault_kind, restarts, db_conns, admins, bot_vars>>

\* handle_new_message on one event, from its first line to its return
HandleEvent ==
  /\ cl = NoDecision
  /\ \E message \in [chat_id : EventChats, reply_to : EventTopics, id : EventIds,
                     text : {TextSell}, sender : EventSenders],
        seen_ok \in BOOLEAN :
       LET c == handle_check(message, tg_sources, ledger, seen_ok)
           r == IF c.outcome = "unseen"
                  THEN handle_rest(message, c.source, topics_tbl, ledger, now, TRUE, TRUE)
                  ELSE [outcome |-> c.outcome, topic |-> None, ledger |-> ledger,
                        deliver |-> FALSE]
       IN /\ ~seen_ok => c.outcome = "seen_error"
          /\ ledger' = r.ledger
          /\ delivered' = IF r.deliver THEN BagAdd(delivered, TGKey(message)) ELSE delivered
          /\ cl' = [lane |-> "event", sources |-> tg_sources, message |-> message,
                    outcome |-> r.outcome, topic |-> r.topic, deliver |-> r.deliver,
                    recorded |-> r.ledger # ledger, looked_up |-> c.looked_up]
  /\ UNCHANGED <<db_vars, now, vk_vars, tg_vars, last_seen, db_last,
                 limiter_vars, faults, fault_kind, restarts, db_conns, admins, bot_vars>>

NextEvents == LoadSources \/ FindSource \/ HandleEvent \/ ClassifyReturn

SpecEvents == Init /\ [][NextEvents]_vars

\* C19: find_source answers a source exactly when some loaded source has the
\* event's chat id and either no sub-topic or the event's sub-topic, and then
\* answers the first such source.
C19_FindSource ==
  cl.lane = "find_source" =>
    LET Matches(source) == /\ source.chat_id = cl.chat_id
                           /\ source.topic_id = 0 \/ source.topic_id = cl.topic_id
    IN /\ cl.result # NoSource <=> \E i \in 1..Len(cl.sources) : Matches(cl.sources[i])
       /\ cl.result # NoSource =>
            \E i \in 1..Len(cl.sources) :
              /\ cl.sources[i] = cl.result
              /\ Matches(cl.sources[i])
              /\ \A j \in 1..(i - 1) : ~Matches(cl.sources[j])

\* the only source of the event's chat names sub-topic 5, a source of another
\* chat names none, the event is in sub-topic 7, and no source was found
C19_Witness ==
  /\ cl.lane = "find_source"
  /\ Len(cl.sources) = 2
  /\ cl.sources[1].chat_id = 12 /\ cl.sources[1].topic_id = 5
  /\ cl.sources[2].chat_id = 99 /\ cl.sources[2].topic_id = 0
  /\ cl.chat_id = 12
  /\ cl.topic_id = 7
  /\ cl.result = NoSource

\* C20: the handler of an event that no loaded source matches makes no ledger
\* lookup, delivers nothing and records nothing, and its run leaves the
\* ledger, the deliveries and the loaded sources as they were.
C20_UnmatchedDiscarded ==
  /\ []((/\ cl.lane = "event"
         /\ ~\E i \in 1..Len(cl.sources) :
               /\ cl.sources[i].chat_id = cl.message.chat_id
               /\ \/ cl.sources[i].topic_id = 0
                  \/ cl.sources[i].topic_id = cl.message.reply_to) =>
          (/\ cl.outcome = "no_source"
           /\ ~cl.looked_up
           /\ ~cl.deliver
           /\ ~cl.recorded
           /\ cl.topic = None))
  /\ [][(cl.lane = "none" /\ cl'.lane = "event" /\ cl'.outcome = "no_source") =>
          (ledger' = ledger /\ delivered' = delivered /\ tg_sources' = tg_sources
           /\ tg_inflight' = tg_inflight)]_vars

\* an event of chat 12 in sub-topic 7 was discarded because the chat's source
\* names sub-topic 5, while a message of the other chat is in the ledger
C20_Witness ==
  /\ cl.lane = "event"
  /\ cl.outcome = "no_source"
  /\ cl.message.chat_id = 12
  /\ cl.message.reply_to = 7
  /\ \E i \in 1..Len(cl.sources) :
       cl.sources[i].chat_id = 12 /\ cl.sources[i].topic_id = 5
  /\ ledger # {}

\* ------------------------------------------------------------------ ticks of the VK lane
\* C21: a tick of the VK lane starts only when no group and no post of an
\* earlier tick is pending, and within a tick the for loop moves to the next
\* group only when the posts of the current one are used up: the index moves
\* by one with no post pending, and pending posts are only ever consumed.
C21_NoOverlap ==
  /\ [][(VKTick /\ vk_is_running) => (vk_i = 0 /\ vk_posts = <<>>)]_vars
  /\ [][vk_i' # vk_i =>
          (/\ vk_posts' = <<>>
           /\ vk_i' \in {0, vk_i + 1})]_vars
  /\ [][(vk_posts # <<>> /\ vk_posts' # vk_posts) =>
          (vk_posts' = Tail(vk_posts) \/ vk_posts' = <<>>)]_vars
  /\ [](vk_posts # <<>> => (vk_pc = "posts" /\ vk_i \in 1..Len(vk_snapshot.groups)))

\* without any restart, a tick is at its first group while a post of the
\* second group, recorded by an earlier tick, is in the ledger
C21_Witness ==
  /\ restarts = MaxRestarts
  /\ vk_pc = "group"
  /\ vk_i = 1
  /\ \E r \in ledger : r.source_type = "vk" /\ r.source_group = GroupB.group_id

\* ------------------------------------------------------------------ coordinated shutdown
\* one process from its start to after the shutdown signal: both lanes, the
\* stop calls and the close of the HTTP session; the event loop resumes the
\* task of VKParser.start whenever its sleep or request ends
DownVKLane ==
  \/ VKStart
  \/ VKTick
  \/ VKCheckGroup({TextSell})
  \/ VKProcessPost
  \/ VKSleep

NextDown ==
  \/ DownVKLane
  \/ VKSessionClose
  \/ TGStart
  \/ TGEvent({SourceA.chat_id}, {TextSell})
  \/ TGFinish
  \/ TGExit
  \/ Shutdown

SpecDown == Init /\ [][NextDown]_vars /\ WF_vars(DownVKLane)

\* VKParser.stop has been called in this process
VKStopped == ~vk_is_running /\ vk_pc # "init"

\* TelegramParser.stop has completed in this process
TGStopped == ~tg_is_running /\ tg_pc # "init"

\* C22: once VKParser.stop has been called the lane stays stopped, the loop
\* of start begins no tick (it never goes from its while test into
\* check_all_groups), a loop that has ended stays ended, and the loop
\* eventually ends.
C22_StopEndsPolling ==
  /\ [][VKStopped =>
          (/\ VKStopped'
           /\ ~(vk_pc = "loop" /\ vk_pc' \in {"group", "sleep"})
           /\ (vk_pc = "done" => vk_pc' = "done"))]_vars
  /\ (VKStopped ~> vk_pc = "done")

\* the loop has ended after a stop that came while the lane had already
\* recorded a post
C22_Witness ==
  /\ vk_pc = "done"
  /\ VKStopped
  /\ \E r \in ledger : r.source_type = "vk"

\* C23: after TelegramParser.stop has completed no event is taken up: no new
\* handler gets past the duplicate check, and no duplicate is looked up.
C23_SubscriptionClosed ==
  [][TGStopped =>
       (/\ BagSize(tg_inflight') <= BagSize(tg_inflight)
        /\ last_seen' = last_seen)]_vars

\* C24: while a tick has a group or a post in hand, the HTTP session it uses
\* is not closed.
C24_SessionOpenDuringTick ==
  vk_pc \in {"group", "posts"} => vk_session # "closed"

\* ------------------------------------------------------------------ concurrent records
\* mark_processed step by step, each call on a connection of its own:
\* connect, INSERT OR IGNORE inside an implicit transaction, commit.  The
\* INSERT takes the write lock of the database file and the commit releases
\* it; a writer that finds the lock taken waits for it (the busy timeout of
\* sqlite3.connect is five seconds, a transaction here is one INSERT).
WriterKeys(w) ==
  IF w = "vk" THEN {<<"vk", Str(1), GroupA.group_id>>}
  ELSE {<<"telegram", Str(1), Str(SourceA.chat_id)>>,
        <<"telegram", Str(2), Str(SourceA.chat_id)>>}

WriteLocked(w) == \E o \in Writers \ {w} : db_conns[o].pc = "inserted"

\* async with self.get_connection() as conn
MarkConnect(w) ==
  /\ db_conns[w].pc = "idle"
  /\ \E key \in WriterKeys(w), topic \in {103, 104} :
       db_conns' = [db_conns EXCEPT ![w] = [pc |-> "connected", key |-> key,
                                            topic |-> topic, ret |-> FALSE]]
  /\ UNCHANGED <<ledger, db_vars, now, vk_vars, tg_vars, delivered, last_seen, other_vars,
                 faults, fault_kind, restarts, admins, bot_vars>>

\* an INSERT that gives up at once when the lock is taken: the exception is
\* caught and mark_processed returns False
MarkInsert_nowait(w) ==
  /\ db_conns[w].pc = "connected"
  /\ db_conns' = [db_conns EXCEPT ![w].pc = IF WriteLocked(w) THEN "done" ELSE "inserted"]
  /\ UNCHANGED <<ledger, db_vars, now, vk_vars, tg_vars, delivered, last_seen, other_vars,
                 faults, fault_kind, restarts, admins, bot_vars>>

\* await conn.execute(INSERT OR IGNORE ...)
MarkInsert(w) ==
  /\ db_conns[w].pc = "connected"
  /\ ~WriteLocked(w)
  /\ db_conns' = [db_conns EXCEPT ![w].pc = "inserted"]
  /\ UNCHANGED <<ledger, db_vars, now, vk_vars, tg_vars, delivered, last_seen, other_vars,
                 faults, fault_kind, restarts, admins, bot_vars>>

\* await conn.commit(); return True
MarkCommit(w) ==
  /\ db_conns[w].pc = "inserted"
  /\ LET c == db_conns[w]
         r == mark_processed(ledger, c.key[1], c.key[2], c.key[3], c.topic,
                             md5(TextSell), now, TRUE)
     IN /\ ledger' = r.ledger
        /\ db_conns' = [db_conns EXCEPT ![w].pc = "done", ![w].ret = r.ret]
  /\ UNCHANGED <<db_vars, now, vk_vars, tg_vars, delivered, last_seen, other_vars,
                 faults, fault_kind, restarts, admins, bot_vars>>

\* the caller goes on; its next call opens a new connection
MarkReturn(w) ==
  /\ db_conns[w].pc = "done"
  /\ db_conns' = [db_conns EXCEPT ![w] = [pc |-> "idle"]]
  /\ UNCHANGED <<ledger, db_vars, now, vk_vars, tg_vars, delivered, last_seen, other_vars,
                 faults, fault_kind, restarts, admins, bot_vars>>

NextRecord ==
  \/ \E w \in Writers : MarkConnect(w)
  \/ \E w \in Writers : MarkInsert(w)
  \/ \E w \in Writers : MarkCommit(w)
  \/ \E w \in Writers : MarkReturn(w)
  \/ TimePasses

SpecRecord == Init /\ [][NextRecord]_vars

\* C25: whatever the interleaving of the callers, a call of mark_processed
\* that has returned has returned True and its key is in the ledger exactly
\* once, and no step removes or replaces a row of the ledger.
C25_ConcurrentRecord ==
  /\ [](\A w \in Writers :
          db_conns[w].pc = "done" =>
            (/\ db_conns[w].ret
             /\ Cardinality({r \in ledger : KeyOf(r) = db_conns[w].key}) = 1))
  /\ [][ledger \subseteq ledger']_vars

\* the three callers were inside mark_processed together, with three
\* different keys, and all have returned
C25_Witness ==
  /\ \A w \in Writers : db_conns[w].pc = "done"
  /\ \A w1, w2 \in Writers : w1 # w2 => db_conns[w1].key # db_conns[w2].key
  /\ Cardinality(ledger) = 3

\* ------------------------------------------------------------------ the accept path, statement by statement
\* the end of process_post and of handle_new_message
\* for an accepted item, the delivery point comes first, mark_processed second

\* an accept path that records before it delivers
accept_steps_record_first == <<"record", "deliver">>

accept_steps == <<"deliver", "record">>

AcceptIds == 1..2

\* an item reaches the filters and the classifier; an accepted one is left
\* in front of the two statements of the accept path
AcceptBegin ==
  /\ cl = NoDecision
  /\ \E kind \in {"vk", "telegram"}, id \in AcceptIds, text \in PipeTexts :
       LET post == [id |-> id, text |-> text]
           message == [chat_id |-> SourceA.chat_id, reply_to |-> 0, id |-> id, text |-> text]
           c == handle_check(message, <<SourceA>>, ledger, TRUE)
           r == IF kind = "vk"
                  THEN process_post(post, GroupA, topics_tbl, ad_keywords_tbl, ledger, now,
                                    TRUE, TRUE)
                ELSE IF c.outcome = "unseen"
                  THEN handle_rest(message, c.source, topics_tbl, ledger, now, TRUE, TRUE)
                ELSE [outcome |-> c.outcome, topic |-> None, ledger |-> ledger,
                      deliver |-> FALSE]
           key == IF kind = "vk" THEN <<"vk", Str(id), GroupA.group_id>> ELSE TGKey(message)
       IN cl' = [lane |-> "accept", kind |-> kind, key |-> key, text |-> text,
                 topic |-> r.topic, todo |-> IF r.deliver THEN accept_steps ELSE <<>>,
                 accepted |-> r.deliver, emitted |-> FALSE, failed |-> FALSE,
                 recorded |-> FALSE]
  /\ UNCHANGED <<ledger, db_vars, now, vk_vars, tg_vars, delivered, last_seen, db_last,
                 limiter_vars, faults, fault_kind, restarts, db_conns, admins, bot_vars>>

\* the next statement of the accept path runs.  A delivery point that raises
\* ends the function (process_post lets the exception out, the try of
\* handle_new_message catches it); a failed INSERT makes mark_processed
\* answer False.
AcceptStep ==
  /\ cl.lane = "accept"
  /\ cl.todo # <<>>
  /\ IF Head(cl.todo) = "deliver"
       THEN \E ok \in BOOLEAN :
              /\ delivered' = IF ok THEN BagAdd(delivered, cl.key) ELSE delivered
              /\ cl' = [cl EXCEPT !.todo = IF ok THEN Tail(cl.todo) ELSE <<>>,
                                  !.emitted = ok, !.failed = ~ok]
              /\ UNCHANGED <<ledger, faults, fault_kind>>
       ELSE \E ok \in Oks :
              LET m == mark_processed(ledger, cl.key[1], cl.key[2], cl.key[3],
                                      cl.topic.topic_id, md5(cl.text), now, ok)
              IN /\ ledger' = m.ledger
                 /\ cl' = [cl EXCEPT !.todo = Tail(cl.todo), !.recorded = m.ledger # ledger]
                 /\ faults' = IF ok THEN faults ELSE faults - 1
                 /\ fault_kind' = IF ok THEN fault_kind ELSE "mark"
                 /\ UNCHANGED delivered
  /\ UNCHANGED <<db_vars, now, vk_vars, tg_vars, last_seen, db_last,
                 limiter_vars, restarts, db_conns, admins, bot_vars>>

\* the function returns
AcceptReturn ==
  /\ cl.lane = "accept"
  /\ cl.todo = <<>>
  /\ cl' = NoDecision
  /\ UNCHANGED <<ledger, db_vars, now, vk_vars, tg_vars, delivered, last_seen, db_last,
                 limiter_vars, faults, fault_kind, restarts, db_conns, admins, bot_vars>>

NextAccept == AcceptBegin \/ AcceptStep \/ AcceptReturn \/ TimePasses

SpecAccept == Init /\ [][NextAccept]_vars

C27_AppendOnly ==
  /\ [][/\ ledger \subseteq ledger'
        /\ Cardinality(Keys(ledger')) = Cardinality(ledger')
        /\ ledger' # ledger =>
             (/\ Cardinality(ledger' \ ledger) = 1
              /\ \A r \in ledger' \ ledger :
                   /\ KeyOf(r) \notin Keys(ledger)
                   /\ Count(delivered', KeyOf(r)) = Count(delivered, KeyOf(r)) + 1
                   /\ r.target_topic_id # None.topic_id
              /\ last_seen' = last_seen)]_vars
  /\ [](Cardinality(Keys(ledger)) = Cardinality(ledger))

\* after a restart the ledger holds rows of both lanes and an item has been
\* dropped as already seen
C27_Witness ==
  /\ restarts < MaxRestarts
  /\ \E r \in ledger : r.source_type = "vk"
  /\ \E r \in ledger : r.source_type = "telegram"
  /\ last_seen # <<>>

\* ------------------------------------------------------------------ repeated messages
\* C28: a Telegram event that reaches the duplicate check is dropped as seen
\* exactly when its key (type, message id, chat) is in the ledger; when the
\* key is not there the message is delivered and recorded, whatever rows of
\* the same chat, with the same content hash, the ledger holds.
C28_KeyOnlyDedup ==
  [][(cl.lane = "none" /\ cl'.lane = "event" /\ cl'.looked_up
      /\ cl'.outcome # "seen_error") =>
       LET key == TGKey(cl'.message) IN
       /\ cl'.outcome = "seen" <=> key \in Keys(ledger)
       /\ key \notin Keys(ledger) =>
            (/\ cl'.deliver
             /\ cl'.recorded
             /\ key \in Keys(ledger')
             /\ Count(delivered', key) = Count(delivered, key) + 1)]_vars

\* message 2 of a chat has just been delivered and recorded although
\* message 1 of the same chat is in the ledger with the same content hash
C28_Witness ==
  /\ cl.lane = "event"
  /\ cl.message.id = 2
  /\ cl.recorded
  /\ cl.deliver
  /\ \E r1, r2 \in ledger :
       /\ KeyOf(r1) = TGKey(cl.message)
       /\ r2.source_type = "telegram"
       /\ r2.source_id = Str(1)
       /\ r2.source_group = r1.source_group
       /\ r2.content_hash = r1.content_hash

\* ------------------------------------------------------------------ owner id of a group
\* identifiers a group may be configured with: up to three characters
GroupIdChars == {"1", "2", "0", "-", "+", "c"}
MaxIdLen == 3
GroupIds == UNION {[1..n -> GroupIdChars] : n \in 0..MaxIdLen}

\* one call of check_group up to its for loop
CheckGroupCall ==
  /\ cl = NoDecision
  /\ \E group_id \in GroupIds, answer \in LookupAnswers, batch \in Batches({TextSell}),
        closed \in BOOLEAN :
       LET r == check_group(group_id, answer, batch, closed)
       IN cl' = [lane |-> "check_group", group_id |-> group_id, answer |-> answer,
                 batch |-> batch, closed |-> closed, requests |-> r.requests,
                 owner_id |-> r.owner_id, fetched |-> r.fetched, posts |-> r.posts]
  /\ UNCHANGED <<ledger, db_vars, now, vk_vars, tg_vars, delivered, last_seen, db_last,
                 limiter_vars, faults, fault_kind, restarts, db_conns, admins, bot_vars>>

NextResolve == CheckGroupCall \/ ClassifyReturn

SpecResolve == Init /\ [][NextResolve]_vars

ToggleGroup ==
  /\ \E i \in 1..Len(vk_groups_tbl) :
       vk_groups_tbl' = [vk_groups_tbl EXCEPT ![i].enabled = FALSE]
  /\ UNCHANGED <<ledger, tg_sources_tbl, topics_tbl, ad_keywords_tbl, now, vk_vars, tg_vars,
                 delivered, last_seen, other_vars, faults, fault_kind, restarts, db_conns, admins, bot_vars>>

\* Database.add_ad_keyword
AddAdKeyword ==
  /\ \E keyword \in {"PRODAM"} :
       ad_keywords_tbl' = ad_keywords_tbl \cup lower({keyword})
  /\ UNCHANGED <<ledger, vk_groups_tbl, tg_sources_tbl, topics_tbl, now, vk_vars, tg_vars,
                 delivered, last_seen, other_vars, faults, fault_kind, restarts, db_conns, admins, bot_vars>>

\* Database.add_topic on an id of the catalog: INSERT OR REPLACE
ChangeTopic ==
  /\ \E topic_id \in {203} :
       topics_tbl' = [topics_tbl EXCEPT !["prodam"].topic_id = topic_id]
  /\ UNCHANGED <<ledger, vk_groups_tbl, tg_sources_tbl, ad_keywords_tbl, now, vk_vars, tg_vars,
                 delivered, last_seen, other_vars, faults, fault_kind, restarts, db_conns, admins, bot_vars>>

NextConfig ==
  \/ DownVKLane
  \/ ToggleGroup
  \/ AddAdKeyword
  \/ ChangeTopic

SpecConfig == Init /\ [][NextConfig]_vars

\* the configuration as check_all_groups would read it now
ConfigNow ==
  [groups |-> EnabledOnly(vk_groups_tbl), topics |-> topics_tbl,
   ad_keywords |-> ad_keywords_tbl]

MaxBotClock == 2

MaxPosts == 2

\* message texts a user sends; "seychas", "cherez chas" and "2ch" stand for
\* the Cyrillic inputs of parse_time
BotTexts == {"/post", "/cancel", "privet", "seychas", "2ch"}

\* price_storage.prices: the categories on offer
PriceCategories == {"reklama"}

\* callback data of the buttons, as the prefix a filter tests and the rest
BotCallbacks ==
  {[tag |-> "time_", arg |-> a] : a \in {"seychas", "cherez chas", "vchera", "custom_time"}}
  \cup {[tag |-> "price_", arg |-> a] : a \in {"reklama", "REKLAMA", "uslugi"}}
  \cup {[tag |-> "delete_", arg |-> a] : a \in {"0", "7"}}
  \cup {[tag |-> t, arg |-> ""] :
          t \in {"custom_time", "skip_price", "refresh_prices", "confirm_yes",
                 "confirm_no", "edit_post", "edit_content", "edit_time",
                 "edit_price", "edit_delete", "back_to_confirm", "back_to_time",
                 "back_to_price", "back_to_content", "new_post", "cancel"}}

\* parse_time for the inputs above: the quick variants and the hours pattern
parse_time(input_str, now_nsk) ==
  CASE input_str = "seychas" -> [time |-> now_nsk, error |-> FALSE]
    [] input_str = "cherez chas" -> [time |-> now_nsk + 1, error |-> FALSE]
    [] input_str = "2ch" -> [time |-> now_nsk + 2, error |-> FALSE]
    [] OTHER -> [time |-> 0, error |-> TRUE]

\* the first message handler, in the order of registration, whose command
\* and state filters accept the message
message_handler(text, st) ==
  CASE text = "/start" /\ st = "None" -> "cmd_start"
    [] text = "/help" /\ st = "None" -> "cmd_help"
    [] text = "/post" /\ st = "None" -> "cmd_post"
    [] st = "waiting_for_content" -> "process_content"
    [] st = "waiting_for_publish_time" -> "process_custom_time"
    [] text = "/cancel" -> "cmd_cancel"
    [] text = "/list" /\ st = "None" -> "cmd_list"
    [] OTHER -> "unhandled"

\* the first callback handler, in the order of registration, whose data and
\* state filters accept the callback
callback_handler(data, st) ==
  CASE data.tag = "time_" /\ st = "waiting_for_publish_time" -> "process_time_callback"
    [] data.tag = "price_" /\ st = "waiting_for_price" -> "process_price_callback"
    [] data.tag = "skip_price" /\ st = "waiting_for_price" -> "skip_price"
    [] data.tag = "refresh_prices" /\ st = "waiting_for_price" -> "refresh_prices"
    [] data.tag = "delete_" /\ st = "waiting_for_delete_days" -> "process_delete_callback"
    [] data.tag = "confirm_yes" /\ st = "confirming" -> "confirm_post"
    [] data.tag = "confirm_no" /\ st = "confirming" -> "cancel_post"
    [] data.tag = "edit_post" /\ st = "confirming" -> "edit_post"
    [] data.tag = "edit_content" /\ st = "confirming" -> "edit_content"
    [] data.tag = "edit_time" /\ st = "confirming" -> "edit_time"
    [] data.tag = "edit_price" /\ st = "confirming" -> "edit_price"
    [] data.tag = "edit_delete" /\ st = "confirming" -> "edit_delete"
    [] data.tag = "back_to_confirm" -> "back_to_confirm"
    [] data.tag = "back_to_time" -> "back_to_time"
    [] data.tag = "back_to_price" -> "back_to_price"
    [] data.tag = "back_to_content" -> "back_to_content"
    [] data.tag = "new_post" /\ st = "None" -> "callback_new_post"
    [] data.tag = "cancel" -> "callback_cancel"
    [] OTHER -> "unhandled"

\* state.update_data(key=value)
update_data(d, key, value) ==
  [[d EXCEPT ![key] = value] EXCEPT !.has = d.has \cup {key}]

\* show_confirmation: reads content and publish_time (KeyError without them),
\* shows the preview and stores delete_days; the FSM state stays as it is
show_confirmation(st, d, delete_days) ==
  IF {"content", "publish_time"} \subseteq d.has
    THEN [state |-> st, data |-> update_data(d, "delete_days", delete_days)]
  ELSE [state |-> st, data |-> d]

\* int(callback.data.replace('delete_', '')) of the buttons on offer
delete_days_of(arg) == IF arg = "7" THEN 7 ELSE 0

\* the FSM state and data a handler other than confirm_post leaves
handled(h, upd, st, d, clock) ==
  CASE h \in {"cmd_post", "callback_new_post"} ->
         [state |-> "waiting_for_content", data |-> d]
    [] h = "process_content" ->
         [state |-> "waiting_for_publish_time", data |-> update_data(d, "content", upd)]
    [] h = "process_time_callback" ->
         IF upd.arg = "custom_time" \/ parse_time(upd.arg, clock).error
           THEN [state |-> st, data |-> d]
         ELSE [state |-> "waiting_for_price",
               data |-> update_data(d, "publish_time", parse_time(upd.arg, clock).time)]
    [] h = "process_custom_time" ->
         IF parse_time(upd, clock).error
           THEN [state |-> st, data |-> d]
         ELSE [state |-> "waiting_for_price",
               data |-> update_data(d, "publish_time", parse_time(upd, clock).time)]
    [] h = "process_price_callback" ->
         [state |-> "waiting_for_delete_days",
          data |-> IF \E c \in PriceCategories : LowerWord(c) = LowerWord(upd.arg)
                     THEN update_data(d, "price",
                            CHOOSE c \in PriceCategories : LowerWord(c) = LowerWord(upd.arg))
                   ELSE d]
    [] h = "skip_price" ->
         [state |-> "waiting_for_delete_days", data |-> update_data(d, "price", "None")]
    [] h = "process_delete_callback" -> show_confirmation(st, d, delete_days_of(upd.arg))
    [] h = "back_to_confirm" ->
         show_confirmation(st, d, IF "delete_days" \in d.has THEN d.delete_days ELSE 0)
    [] h \in {"cancel_post", "cmd_cancel", "callback_cancel"} ->
         [state |-> "None", data |-> NoData]
    [] h \in {"edit_content", "back_to_content"} ->
         [state |-> "waiting_for_content", data |-> d]
    [] h \in {"edit_time", "back_to_time"} ->
         [state |-> "waiting_for_publish_time", data |-> d]
    [] h \in {"edit_price", "back_to_price"} ->
         [state |-> "waiting_for_price", data |-> d]
    [] h = "edit_delete" -> [state |-> "waiting_for_delete_days", data |-> d]
    [] OTHER -> [state |-> st, data |-> d]

\* publish_post: the post is sent to the channel and marked PUBLISHED, or the
\* send raises and it is marked FAILED
publish_post(storage, id, send_ok) ==
  [storage EXCEPT ![id].status = IF send_ok THEN "PUBLISHED" ELSE "FAILED"]

\* confirm_post: the post is created from the FSM data and stored, then
\* published at once or given to a task, and the conversation ends
confirm_post(d, storage, tasks, clock, send_ok) ==
  LET post == [status |-> "SCHEDULED", content |-> d.content,
               publish_time |-> d.publish_time,
               price |-> IF "price" \in d.has THEN d.price ELSE "None",
               delete_after_days |-> IF "delete_days" \in d.has THEN d.delete_days ELSE 0]
      id == Len(storage) + 1
      added == Append(storage, post)
  IN IF post.publish_time <= clock
       THEN [storage |-> publish_post(added, id, send_ok), tasks |-> tasks]
     ELSE [storage |-> added, tasks |-> tasks \cup {[id |-> id, pc |-> "created"]}]

\* the dispatcher takes one update of the user's chat and runs its handler
BotUpdate(h, upd) ==
  /\ bot_pc = "up"
  /\ cl' = [lane |-> "bot", handler |-> h, before |-> fsm_state]
  /\ IF h = "confirm_post"
       THEN \E send_ok \in BOOLEAN :
              LET r == confirm_post(fsm_data, post_storage, sched_tasks, bot_clock, send_ok)
              IN /\ Len(post_storage) < MaxPosts
                 /\ post_storage' = r.storage
                 /\ sched_tasks' = r.tasks
                 /\ fsm_state' = "None"
                 /\ fsm_data' = NoData
     ELSE LET r == handled(h, upd, fsm_state, fsm_data, bot_clock)
          IN /\ fsm_state' = r.state
             /\ fsm_data' = r.data
             /\ UNCHANGED <<post_storage, sched_tasks>>
  /\ UNCHANGED <<ledger, db_vars, now, vk_vars, tg_vars, delivered, last_seen, db_last,
                 limiter_vars, faults, fault_kind, restarts, db_conns, admins,
                 bot_clock, bot_pc>>

BotMessage == \E text \in BotTexts : BotUpdate(message_handler(text, fsm_state), text)

BotCallback == \E data \in BotCallbacks : BotUpdate(callback_handler(data, fsm_state), data)

\* executor.start_polling: the dispatcher starts to take updates
BotPolling ==
  /\ bot_pc = "down"
  /\ bot_pc' = "up"
  /\ UNCHANGED <<ledger, db_vars, now, vk_vars, tg_vars, delivered, last_seen, other_vars,
                 faults, fault_kind, restarts, db_conns, admins,
                 fsm_state, fsm_data, post_storage, sched_tasks, bot_clock>>

BotTime ==
  /\ bot_clock < MaxBotClock
  /\ bot_clock' = bot_clock + 1
  /\ UNCHANGED <<ledger, db_vars, now, vk_vars, tg_vars, delivered, last_seen, other_vars,
                 faults, fault_kind, restarts, db_conns, admins,
                 fsm_state, fsm_data, post_storage, sched_tasks, bot_pc>>

NextWizard == BotPolling \/ BotMessage \/ BotCallback \/ BotTime

SpecWizard == Init /\ [][NextWizard]_vars

\* C31: the wizard reaches its confirmation: the choice of the deletion
\* period in waiting_for_delete_days leaves the conversation in the
\* confirming state, where confirm_yes stores the post.
C31_WizardConfirms ==
  [][(cl'.lane = "bot" /\ cl'.handler = "process_delete_callback"
      /\ "delete_days" \in fsm_data'.has)
       => fsm_state' = "confirming"]_vars

\* C32: the requests sent since the last reset of the window, groups.getById
\* and wall.get together, are never more than three.
C32_WindowBound == vk_limiter.request_count <= RateLimit

\* C33: with no storage error and no restart, the handlers that run for one
\* Telegram message, at the same time or one after the other, emit at most one
\* delivery request for its key, and the ledger never holds two rows of it.
C33_OneDeliveryPerMessage ==
  (faults = MaxFaults /\ restarts = MaxRestarts) =>
    \A k \in DOMAIN delivered :
      k[1] = "telegram" =>
        (/\ delivered[k] <= 1
         /\ Cardinality({r \in ledger : KeyOf(r) = k}) <= 1)

\* ------------------------------------------------------------------ dropped items
\* texts of the fetched posts: accepted, and without a topic
RecheckTexts == PipeTexts

\* outcomes of process_post that drop the post at a filter or at the
\* classifier
FilterDrops == {"empty", "ad", "exclude", "gate", "no_topic"}

\* the keys the filters have dropped so far, each with its outcome
DroppedSoFar == IF cl.lane = "recheck" THEN cl.dropped ELSE {}

\* one iteration of check_group's for loop, as VKProcessPost; it is noted
\* what the iteration decided and whether the filters had dropped the post
\* in an earlier iteration
RecheckPost ==
  /\ vk_pc = "posts"
  /\ \E seen_ok \in Oks, mark_ok \in Oks :
       LET post == Head(vk_posts)
           group == vk_snapshot.groups[vk_i]
           r == process_post(post, group, vk_snapshot.topics, vk_snapshot.ad_keywords,
                             ledger, now, seen_ok, mark_ok)
           key == <<"vk", Str(post.id), group.group_id>>
           rest == IF r.raised THEN <<>> ELSE Tail(vk_posts)
       IN /\ (seen_ok \/ mark_ok)
          /\ (~mark_ok => r.outcome = "record_failed")
          /\ ledger' = r.ledger
          /\ delivered' = IF r.deliver THEN BagAdd(delivered, key) ELSE delivered
          /\ last_seen' = IF r.outcome = "seen" THEN key ELSE last_seen
          /\ faults' = IF seen_ok /\ mark_ok THEN faults ELSE faults - 1
          /\ fault_kind' = IF ~seen_ok THEN "seen" ELSE IF ~mark_ok THEN "mark" ELSE fault_kind
          /\ cl' = [lane |-> "recheck", key |-> key, text |-> post.text,
                    outcome |-> r.outcome, deliver |-> r.deliver,
                    again |-> \E d \in DroppedSoFar : d[1] = key /\ d[2] = post.text,
                    dropped |-> IF r.outcome \in FilterDrops
                                  THEN DroppedSoFar \cup {<<key, post.text, r.outcome>>}
                                ELSE DroppedSoFar]
          /\ IF rest = <<>>
               THEN AfterGroup
               ELSE vk_posts' = rest /\ UNCHANGED <<vk_pc, vk_i>>
  /\ UNCHANGED <<db_vars, now, vk_is_running, vk_snapshot, vk_session, tg_vars, db_last,
                 limiter_vars, restarts, db_conns, admins, bot_vars>>

NextRecheck ==
  \/ VKStart
  \/ VKTick
  \/ VKCheckGroup(RecheckTexts)
  \/ RecheckPost
  \/ VKSleep

SpecRecheck == Init /\ [][NextRecheck]_vars

C35_NoFamilyFallback ==
  (/\ cl.lane \in {"vk", "telegram"}
   /\ ~cl.src.all_posts
   /\ cl.src.classifier_type = "buy_sell") =>
    LET words == lower(cl.text)
        has(family) == \E word \in family : word \in words
        first == IF has(GiveawayWords) THEN "otdam"
                 ELSE IF has(BuyWords) THEN "kuplyu"
                 ELSE IF has(SellWords) THEN "prodam"
                 ELSE "none"
    IN (first # "none" /\ first \notin DOMAIN cl.topics) =>
         (/\ cl.target = None
          /\ cl.topic = None
          /\ ~cl.deliver
          /\ ~cl.recorded)

\* a post with a giveaway word and a sell word met a catalog that has the
\* sell topic but not the giveaway topic, and was dropped for having no topic
C35_Witness ==
  /\ cl.lane = "vk"
  /\ ~cl.src.all_posts
  /\ cl.src.classifier_type = "buy_sell"
  /\ ~cl.src.require_date_or_price
  /\ cl.text = {"otdam", "prodam"}
  /\ "otdam" \notin DOMAIN cl.topics
  /\ "prodam" \in DOMAIN cl.topics
  /\ cl.outcome = "no_topic"
  /\ ~cl.deliver

\* C36: when the loaded sources hold a source for the sub-topic of the event
\* in the event's chat, find_source answers that source, whether a chat-wide
\* source of the same chat comes before it in the list or after it.
C36_MostSpecificWins ==
  (/\ cl.lane = "find_source"
   /\ cl.topic_id # 0
   /\ \E i \in 1..Len(cl.sources) :
        cl.sources[i].chat_id = cl.chat_id /\ cl.sources[i].topic_id = cl.topic_id) =>
    (cl.result # NoSource /\ cl.result.topic_id = cl.topic_id)

\* C37: the classifier of the VK lane and the classifier of the Telegram lane
\* answer the same topic, or both answer none, for every text, every source
\* configuration and every catalog either of them is called with.
C37_SameClassifier ==
  cl.lane \in {"vk", "telegram"} =>
    (/\ cl.target = VK_determine_target_topic([id |-> 1, text |-> cl.text], cl.src, cl.topics)
     /\ cl.target = TG_determine_target_topic(cl.text, cl.src, cl.topics))

\* a Telegram message with a giveaway word and a sell word was classified by
\* a buy_sell source on the default catalog, to the giveaway topic
C37_Witness ==
  /\ cl.lane = "telegram"
  /\ ~cl.src.all_posts
  /\ cl.src.classifier_type = "buy_sell"
  /\ cl.text = {"otdam", "prodam"}
  /\ cl.topics = DefaultTopics
  /\ cl.target = DefaultTopics["otdam"]
  /\ cl.deliver

\* ------------------------------------------------------------------ one community, two sources
\* the community of group a configured a second time, its numeric id written
\* with the sign; vk_groups.group_id is UNIQUE as text, and the two texts differ
GroupAlias == [GroupA EXCEPT !.name = "a2", !.group_id = <<"-">> \o GroupA.group_id]

\* Database.add_vk_group with the second source; the table stays in ORDER BY
\* name
AddVKGroup ==
  /\ vk_groups_tbl = <<GroupA, GroupB>>
  /\ vk_groups_tbl' = <<GroupA, GroupAlias, GroupB>>
  /\ UNCHANGED <<ledger, tg_sources_tbl, topics_tbl, ad_keywords_tbl, now, vk_vars, tg_vars,
                 delivered, last_seen, other_vars, faults, fault_kind, restarts, db_conns, admins, bot_vars>>

NextAlias ==
  \/ AddVKGroup
  \/ VKStart
  \/ VKTick
  \/ VKCheckGroup({TextSell})
  \/ VKProcessPost
  \/ VKSleep

SpecAlias == Init /\ [][NextAlias]_vars

\* the owner id check_group fetches the wall of, for a numeric group id
OwnerOf(group_id) ==
  check_group(group_id, CHOOSE a \in LookupAnswers : a.kind = "error", <<>>, FALSE).owner_id

\* C38: with no storage error, a wall post of a community that two enabled
\* sources name under different identifiers of the same owner id gets at most
\* one delivery request, the two sources taken together.
C38_OncePerCommunity ==
  (faults = MaxFaults /\ OwnerOf(GroupA.group_id) = OwnerOf(GroupAlias.group_id)) =>
    \A i \in 1..MaxPostId :
      Count(delivered, <<"vk", Str(i), GroupA.group_id>>)
        + Count(delivered, <<"vk", Str(i), GroupAlias.group_id>>) <= 1

\* ------------------------------------------------------ scheduled posts
\* what scheduled_posts.json may hold when the bot is started: up to MaxPosts
\* posts, scheduled or published, with publish times on the bot's clock
StoredPost == [status : {"SCHEDULED", "PUBLISHED"}, content : {"privet"},
               publish_time : 0..MaxBotClock, price : {"None"},
               delete_after_days : {0}]

StoredPosts == UNION {[1..n -> StoredPost] : n \in 1..MaxPosts}

\* PostStorage.get_active: the scheduled posts whose time is still to come
get_active(storage, clock) ==
  {id \in DOMAIN storage :
     storage[id].status = "SCHEDULED" /\ storage[id].publish_time > clock}

\* the posts of ids published one after the other; oks says for each
\* whether the send succeeds
RECURSIVE publish_all(_, _, _)
publish_all(storage, ids, oks) ==
  IF ids = {} THEN storage
  ELSE LET id == CHOOSE i \in ids : \A j \in ids : i <= j
       IN publish_all(publish_post(storage, id, oks[id]), ids \ {id}, oks)

\* check_scheduled_posts: now is read, then the active posts are taken (at
\* now_active, not before now); of these the ones due are published at once
\* and the others are given to a task
check_scheduled_posts(storage, tasks, now_nsk, now_active, oks) ==
  LET active_posts == get_active(storage, now_active)
      missed == {id \in active_posts : storage[id].publish_time <= now_nsk}
  IN [storage |-> publish_all(storage, missed, oks),
      tasks |-> tasks \cup {[id |-> id, pc |-> "created"] : id \in active_posts \ missed}]

\* the module is loaded: PostStorage reads the file; the first time it holds
\* any of StoredPosts, later what the last run saved.  No task and no
\* conversation survives from an earlier run.
BotLoad ==
  /\ bot_pc = "down"
  /\ bot_pc' = "startup"
  /\ post_storage' \in IF post_storage = <<>> THEN StoredPosts ELSE {post_storage}
  /\ sched_tasks' = {}
  /\ fsm_state' = "None"
  /\ fsm_data' = NoData
  /\ UNCHANGED <<ledger, db_vars, now, vk_vars, tg_vars, delivered, last_seen, other_vars,
                 faults, fault_kind, restarts, db_conns, admins, bot_clock>>

\* on_startup: when the channel cannot be reached it returns before
\* check_scheduled_posts; polling starts in either case
on_startup ==
  /\ bot_pc = "startup"
  /\ \E chat_ok \in BOOLEAN, oks \in [DOMAIN post_storage -> BOOLEAN] :
       LET r == check_scheduled_posts(post_storage, sched_tasks, bot_clock, bot_clock, oks)
       IN IF chat_ok
            THEN /\ bot_pc' = "up"
                 /\ post_storage' = r.storage
                 /\ sched_tasks' = r.tasks
          ELSE /\ bot_pc' = "degraded"
               /\ UNCHANGED <<post_storage, sched_tasks>>
  /\ UNCHANGED <<ledger, db_vars, now, vk_vars, tg_vars, delivered, last_seen, other_vars,
                 faults, fault_kind, restarts, db_conns, admins,
                 fsm_state, fsm_data, bot_clock>>

\* schedule_post_task from its first line to the sleep: a task that finds its
\* post due already ends without publishing it
SchedTaskStart ==
  /\ bot_pc \in {"up", "degraded"}
  /\ \E t \in sched_tasks :
       /\ t.pc = "created"
       /\ sched_tasks' = IF post_storage[t.id].publish_time - bot_clock > 0
                           THEN (sched_tasks \ {t}) \cup {[t EXCEPT !.pc = "sleeping"]}
                         ELSE sched_tasks \ {t}
  /\ UNCHANGED <<ledger, db_vars, now, vk_vars, tg_vars, delivered, last_seen, other_vars,
                 faults, fault_kind, restarts, db_conns, admins,
                 fsm_state, fsm_data, post_storage, bot_clock, bot_pc>>

\* the sleep of schedule_post_task ends and the post is published
SchedTaskWake ==
  /\ bot_pc \in {"up", "degraded"}
  /\ \E t \in sched_tasks, send_ok \in BOOLEAN :
       /\ t.pc = "sleeping"
       /\ bot_clock >= post_storage[t.id].publish_time
       /\ post_storage' = publish_post(post_storage, t.id, send_ok)
       /\ sched_tasks' = sched_tasks \ {t}
  /\ UNCHANGED <<ledger, db_vars, now, vk_vars, tg_vars, delivered, last_seen, other_vars,
                 faults, fault_kind, restarts, db_conns, admins,
                 fsm_state, fsm_data, bot_clock, bot_pc>>

\* the process of the bot ends; its tasks end with it, the file stays
BotStop ==
  /\ bot_pc \in {"up", "degraded"}
  /\ bot_pc' = "down"
  /\ sched_tasks' = {}
  /\ fsm_state' = "None"
  /\ fsm_data' = NoData
  /\ UNCHANGED <<ledger, db_vars, now, vk_vars, tg_vars, delivered, last_seen, other_vars,
                 faults, fault_kind, restarts, db_conns, admins, post_storage, bot_clock>>

NextSched ==
  \/ BotLoad
  \/ on_startup
  \/ SchedTaskStart
  \/ SchedTaskWake
  \/ BotStop
  \/ BotTime

SpecSched == Init /\ [][NextSched]_vars

\* C39: when on_startup has run check_scheduled_posts, no post is left
\* scheduled without a task: the posts whose publish time has passed are
\* published (or failed), and every post still to come has its task.
C39_StartupRecovers ==
  [][(bot_pc = "startup" /\ bot_pc' = "up") =>
       \A id \in DOMAIN post_storage' :
         post_storage'[id].status = "SCHEDULED" =>
           (/\ post_storage'[id].publish_time > bot_clock
            /\ \E t \in sched_tasks' : t.id = id)]_vars

\* ------------------------------------------------------------------ administrators
\* Config.MAIN_ADMIN_ID
MAIN_ADMIN_ID == 1174432700

\* the user ids the administrator calls are made with
AdminIds == {MAIN_ADMIN_ID, 7, 8}

\* Database.is_admin
is_admin(tbl, user_id) == \E r \in tbl : r.user_id = user_id

\* Database.is_main_admin
is_main_admin(tbl, user_id) == \E r \in tbl : r.user_id = user_id /\ r.is_main

\* Database.add_admin: INSERT OR REPLACE on the primary key user_id; ok =
\* FALSE: the statement fails, the table stays and False is returned
add_admin(tbl, user_id, is_main, ok) ==
  IF ok
    THEN [admins |-> {r \in tbl : r.user_id # user_id}
                       \cup {[user_id |-> user_id, is_main |-> is_main]},
          ret |-> TRUE]
  ELSE [admins |-> tbl, ret |-> FALSE]

\* Database.remove_admin: DELETE ... WHERE user_id = ? AND is_main = 0
remove_admin(tbl, user_id, ok) ==
  IF ok
    THEN [admins |-> {r \in tbl : ~(r.user_id = user_id /\ ~r.is_main)}, ret |-> TRUE]
  ELSE [admins |-> tbl, ret |-> FALSE]

\* MaslyaninoBot.initialize: the main administrator is added if no row has
\* its id
Initialize ==
  /\ cl = NoDecision
  /\ admins' = IF is_admin(admins, MAIN_ADMIN_ID) THEN admins
               ELSE add_admin(admins, MAIN_ADMIN_ID, TRUE, TRUE).admins
  /\ cl' = [lane |-> "admins", op |-> "initialize", user_id |-> MAIN_ADMIN_ID,
            is_main |-> TRUE, ret |-> TRUE]
  /\ UNCHANGED <<ledger, db_vars, now, vk_vars, tg_vars, delivered, last_seen, db_last,
                 limiter_vars, faults, fault_kind, restarts, db_conns, bot_vars>>

\* a call of add_admin after initialize
AddAdmin ==
  /\ cl.lane = "admins"
  /\ \E user_id \in AdminIds, is_main \in BOOLEAN, ok \in BOOLEAN :
       LET r == add_admin(admins, user_id, is_main, ok)
       IN /\ admins' = r.admins
          /\ cl' = [lane |-> "admins", op |-> "add_admin", user_id |-> user_id,
                    is_main |-> is_main, ret |-> r.ret]
  /\ UNCHANGED <<ledger, db_vars, now, vk_vars, tg_vars, delivered, last_seen, db_last,
                 limiter_vars, faults, fault_kind, restarts, db_conns, bot_vars>>

\* a call of remove_admin after initialize
RemoveAdmin ==
  /\ cl.lane = "admins"
  /\ \E user_id \in AdminIds, ok \in BOOLEAN :
       LET r == remove_admin(admins, user_id, ok)
       IN /\ admins' = r.admins
          /\ cl' = [lane |-> "admins", op |-> "remove_admin", user_id |-> user_id,
                    is_main |-> FALSE, ret |-> r.ret]
  /\ UNCHANGED <<ledger, db_vars, now, vk_vars, tg_vars, delivered, last_seen, db_last,
                 limiter_vars, faults, fault_kind, restarts, db_conns, bot_vars>>

NextAdmins == Initialize \/ AddAdmin \/ RemoveAdmin

SpecAdmins == Init /\ [][NextAdmins]_vars

\* C40: once initialize has run, whatever add_admin and remove_admin calls
\* follow, the admins table has a row of the main administrator's id with
\* is_main set.
C40_MainAdminKept ==
  cl.lane = "admins" => is_main_admin(admins, MAIN_ADMIN_ID)

====
